---- MODULE Spec2Model ----
(***************************************************************************)
(* Model of the Myanmar subtitle translator (src/main.py): the class       *)
(* SubtitleTranslator and the menu loop of main().                         *)
(*                                                                         *)
(* Text is a sequence of one-character strings, so that strip(), split(),  *)
(* int(), the regular expression ^\d+$ and the substring test '-->' are    *)
(* computed as Python computes them.  Indices i and idx are 0-based as in  *)
(* the source; subtitles[i + 1] is Python's subtitles[i].  A character     *)
(* that cannot be written in a string here is the string "U+" followed by  *)
(* its code point in hexadecimal.  The tables of characters (whitespace,   *)
(* decimal digits, lower case) are those of Python 3.11 (Unicode 14).      *)
(* Files are read and written as on a POSIX system: '\n' is written as it  *)
(* is.                                                                     *)
(*                                                                         *)
(* Line 155 of the source is not a Python statement.  Every function is    *)
(* modelled as its text reads; show_statistics, which holds that line, as  *)
(* an operation that ends by an error.                                     *)
(***************************************************************************)
EXTENDS Integers, Sequences, FiniteSets, TLC

\* ------------------------------------------------------------------------
\* Bounds of the model
\* ------------------------------------------------------------------------
MaxBlocks == 3        \* blocks per input document
MaxWorkflows == 2     \* translate workflows started from the main menu

\* ------------------------------------------------------------------------
\* Characters
\* ------------------------------------------------------------------------
\* A character is a string of length one; a character that cannot be
\* written in a string here is "U+" followed by its code point in lowercase
\* hexadecimal digits, four at least.
NL == "\n"
CR == "\r"
FF == "\f"
Quote == "\""
Backslash == "\\"
Tab == "\t"

HexChars ==
    <<"0", "1", "2", "3", "4", "5", "6", "7", "8", "9",
      "a", "b", "c", "d", "e", "f">>
UpperHexChars == <<"A", "B", "C", "D", "E", "F">>

IsHex(c) ==
    \/ \E k \in 1..16 : HexChars[k] = c
    \/ \E k \in 1..6 : UpperHexChars[k] = c

HexVal(c) ==
    IF \E k \in 1..16 : HexChars[k] = c
    THEN (CHOOSE k \in 1..16 : HexChars[k] = c) - 1
    ELSE (CHOOSE k \in 1..6 : UpperHexChars[k] = c) + 9

\* the characters 0x20 to 0x5f
Printable ==
    <<
      " ", "!", "\"", "#", "$", "%", "&", "'", "(", ")", "*", "+",
      ",", "-", ".", "/", "0", "1", "2", "3", "4", "5", "6", "7",
      "8", "9", ":", ";", "<", "=", ">", "?", "@", "A", "B", "C",
      "D", "E", "F", "G", "H", "I", "J", "K", "L", "M", "N", "O",
      "P", "Q", "R", "S", "T", "U", "V", "W", "X", "Y", "Z", "[",
      "\\", "]", "^", "_" >>

\* the characters 0x61 to 0x7e
PrintableAfterGrave ==
    << "a", "b", "c", "d", "e", "f", "g", "h", "i", "j", "k", "l",
       "m", "n", "o", "p", "q", "r", "s", "t", "u", "v", "w", "x",
       "y", "z", "{", "|", "}", "~" >>

\* the characters below 0x20, in the order of their code points
ControlSeq ==
    << "U+0000", "U+0001", "U+0002", "U+0003", "U+0004", "U+0005",
       "U+0006", "U+0007", "U+0008", Tab, NL, "U+000b",
       FF, CR, "U+000e", "U+000f", "U+0010", "U+0011",
       "U+0012", "U+0013", "U+0014", "U+0015", "U+0016", "U+0017",
       "U+0018", "U+0019", "U+001a", "U+001b", "U+001c", "U+001d",
       "U+001e", "U+001f" >>
ControlChars == {ControlSeq[n] : n \in 1..32}

RECURSIVE HexOf(_)
HexOf(n) ==
    IF n < 16 THEN HexChars[n + 1]
    ELSE HexOf(n \div 16) \o HexChars[(n % 16) + 1]

Pad4(h) ==
    IF Len(h) = 1 THEN "000" \o h
    ELSE IF Len(h) = 2 THEN "00" \o h
    ELSE IF Len(h) = 3 THEN "0" \o h
    ELSE h

\* chr(cp)
CharOf(cp) ==
    IF cp < 32 THEN ControlSeq[cp + 1]
    ELSE IF 32 <= cp /\ cp <= 95 THEN Printable[cp - 31]
    ELSE IF 97 <= cp /\ cp <= 126 THEN PrintableAfterGrave[cp - 96]
    ELSE "U+" \o Pad4(HexOf(cp))

\* the number written in hexadecimal from position k of the name c on
RECURSIVE HexNum(_, _, _)
HexNum(c, k, acc) ==
    IF k > Len(c) THEN acc
    ELSE HexNum(c, k + 1, 16 * acc + HexVal(SubSeq(c, k, k)))

\* ord(c)
CodeOf(c) ==
    IF Len(c) > 1 THEN HexNum(c, 3, 0)
    ELSE IF \E n \in 1..64 : Printable[n] = c
    THEN 31 + (CHOOSE n \in 1..64 : Printable[n] = c)
    ELSE IF \E n \in 1..30 : PrintableAfterGrave[n] = c
    THEN 96 + (CHOOSE n \in 1..30 : PrintableAfterGrave[n] = c)
    ELSE (CHOOSE n \in 1..32 : ControlSeq[n] = c) - 1

\* a lone surrogate: a character of a str that no UTF-8 file can hold
IsSurrogate(c) == Len(c) > 1 /\ 55296 <= CodeOf(c) /\ CodeOf(c) <= 57343

\* s.encode('utf-8') does not raise
Encodable(s) == \A k \in 1..Len(s) : ~IsSurrogate(s[k])

\* ------------------------------------------------------------------------
\* Python string primitives on sequences of characters
\* ------------------------------------------------------------------------
\* the code points of the characters str.strip() removes (str.isspace)
SpaceCodes ==
    (9..13) \cup (28..32) \cup {133, 160, 5760} \cup (8192..8202)
        \cup {8232, 8233, 8239, 8287, 12288}
Whitespace == {CharOf(cp) : cp \in SpaceCodes}

\* the characters int() removes around the number: the same but for
\* '\x1c' to '\x1f', which int() rejects
IntWhitespace == {CharOf(cp) : cp \in SpaceCodes \ (28..31)}

DigitChars == <<"0", "1", "2", "3", "4", "5", "6", "7", "8", "9">>
\* the digits '0' to '9', the only digits of a JSON number
AsciiDigits == {DigitChars[k] : k \in 1..10}

\* the code points of the zeros of the decimal digits (category Nd): each
\* is followed by its digits one to nine
DigitZeros ==
    <<
      48, 1632, 1776, 1984, 2406, 2534, 2662, 2790, 2918,
      3046, 3174, 3302, 3430, 3558, 3664, 3792, 3872, 4160,
      4240, 6112, 6160, 6470, 6608, 6784, 6800, 6992, 7088,
      7232, 7248, 42528, 43216, 43264, 43472, 43504, 43600, 44016,
      65296, 66720, 68912, 69734, 69872, 69942, 70096, 70384, 70736,
      70864, 71248, 71360, 71472, 71904, 72016, 72784, 73040, 73120,
      92768, 92864, 93008, 120782, 120792, 120802, 120812, 120822, 123200,
      123632, 125264, 130032 >>

\* the characters \d matches and int() reads as digits: the decimal digits
\* of every script
Digits ==
    {CharOf(DigitZeros[n] + d) : n \in 1..Len(DigitZeros), d \in 0..9}

\* the value of a decimal digit
DigitVal(c) ==
    IF c \in AsciiDigits THEN (CHOOSE k \in 1..10 : DigitChars[k] = c) - 1
    ELSE CodeOf(c)
             - DigitZeros[CHOOSE n \in 1..Len(DigitZeros) :
                              /\ DigitZeros[n] <= CodeOf(c)
                              /\ CodeOf(c) <= DigitZeros[n] + 9]

\* s without the characters of ws it begins with, or ends with
RECURSIVE LeftTrim(_, _)
LeftTrim(s, ws) == IF s # <<>> /\ Head(s) \in ws THEN LeftTrim(Tail(s), ws) ELSE s

RECURSIVE RightTrim(_, _)
RightTrim(s, ws) ==
    IF s # <<>> /\ s[Len(s)] \in ws
    THEN RightTrim(SubSeq(s, 1, Len(s) - 1), ws)
    ELSE s

lstrip(s) == LeftTrim(s, Whitespace)

rstrip(s) == RightTrim(s, Whitespace)

\* str.strip()
strip(s) == rstrip(lstrip(s))

\* --- str.lower() ---------------------------------------------------------
UpperLetters ==
    <<"A", "B", "C", "D", "E", "F", "G", "H", "I", "J", "K", "L", "M",
      "N", "O", "P", "Q", "R", "S", "T", "U", "V", "W", "X", "Y", "Z">>
LowerLetters ==
    <<"a", "b", "c", "d", "e", "f", "g", "h", "i", "j", "k", "l", "m",
      "n", "o", "p", "q", "r", "s", "t", "u", "v", "w", "x", "y", "z">>

\* str.lower(): <<first, last, step, delta>> says that the characters
\* first, first + step, ... last are lowered to the character delta code
\* points further
LowerRanges ==
    <<
      <<65, 90, 1, 32>>, <<192, 214, 1, 32>>,
      <<216, 222, 1, 32>>, <<256, 302, 2, 1>>,
      <<306, 310, 2, 1>>, <<313, 327, 2, 1>>,
      <<330, 374, 2, 1>>, <<376, 376, 1, -121>>,
      <<377, 381, 2, 1>>, <<385, 385, 1, 210>>,
      <<386, 388, 2, 1>>, <<390, 390, 1, 206>>,
      <<391, 391, 1, 1>>, <<393, 394, 1, 205>>,
      <<395, 395, 1, 1>>, <<398, 398, 1, 79>>,
      <<399, 399, 1, 202>>, <<400, 400, 1, 203>>,
      <<401, 401, 1, 1>>, <<403, 403, 1, 205>>,
      <<404, 404, 1, 207>>, <<406, 406, 1, 211>>,
      <<407, 407, 1, 209>>, <<408, 408, 1, 1>>,
      <<412, 412, 1, 211>>, <<413, 413, 1, 213>>,
      <<415, 415, 1, 214>>, <<416, 420, 2, 1>>,
      <<422, 422, 1, 218>>, <<423, 423, 1, 1>>,
      <<425, 425, 1, 218>>, <<428, 428, 1, 1>>,
      <<430, 430, 1, 218>>, <<431, 431, 1, 1>>,
      <<433, 434, 1, 217>>, <<435, 437, 2, 1>>,
      <<439, 439, 1, 219>>, <<440, 440, 1, 1>>,
      <<444, 444, 1, 1>>, <<452, 452, 1, 2>>,
      <<453, 453, 1, 1>>, <<455, 455, 1, 2>>,
      <<456, 456, 1, 1>>, <<458, 458, 1, 2>>,
      <<459, 475, 2, 1>>, <<478, 494, 2, 1>>,
      <<497, 497, 1, 2>>, <<498, 500, 2, 1>>,
      <<502, 502, 1, -97>>, <<503, 503, 1, -56>>,
      <<504, 542, 2, 1>>, <<544, 544, 1, -130>>,
      <<546, 562, 2, 1>>, <<570, 570, 1, 10795>>,
      <<571, 571, 1, 1>>, <<573, 573, 1, -163>>,
      <<574, 574, 1, 10792>>, <<577, 577, 1, 1>>,
      <<579, 579, 1, -195>>, <<580, 580, 1, 69>>,
      <<581, 581, 1, 71>>, <<582, 590, 2, 1>>,
      <<880, 882, 2, 1>>, <<886, 886, 1, 1>>,
      <<895, 895, 1, 116>>, <<902, 902, 1, 38>>,
      <<904, 906, 1, 37>>, <<908, 908, 1, 64>>,
      <<910, 911, 1, 63>>, <<913, 929, 1, 32>>,
      <<931, 939, 1, 32>>, <<975, 975, 1, 8>>,
      <<984, 1006, 2, 1>>, <<1012, 1012, 1, -60>>,
      <<1015, 1015, 1, 1>>, <<1017, 1017, 1, -7>>,
      <<1018, 1018, 1, 1>>, <<1021, 1023, 1, -130>>,
      <<1024, 1039, 1, 80>>, <<1040, 1071, 1, 32>>,
      <<1120, 1152, 2, 1>>, <<1162, 1214, 2, 1>>,
      <<1216, 1216, 1, 15>>, <<1217, 1229, 2, 1>>,
      <<1232, 1326, 2, 1>>, <<1329, 1366, 1, 48>>,
      <<4256, 4293, 1, 7264>>, <<4295, 4295, 1, 7264>>,
      <<4301, 4301, 1, 7264>>, <<5024, 5103, 1, 38864>>,
      <<5104, 5109, 1, 8>>, <<7312, 7354, 1, -3008>>,
      <<7357, 7359, 1, -3008>>, <<7680, 7828, 2, 1>>,
      <<7838, 7838, 1, -7615>>, <<7840, 7934, 2, 1>>,
      <<7944, 7951, 1, -8>>, <<7960, 7965, 1, -8>>,
      <<7976, 7983, 1, -8>>, <<7992, 7999, 1, -8>>,
      <<8008, 8013, 1, -8>>, <<8025, 8031, 2, -8>>,
      <<8040, 8047, 1, -8>>, <<8072, 8079, 1, -8>>,
      <<8088, 8095, 1, -8>>, <<8104, 8111, 1, -8>>,
      <<8120, 8121, 1, -8>>, <<8122, 8123, 1, -74>>,
      <<8124, 8124, 1, -9>>, <<8136, 8139, 1, -86>>,
      <<8140, 8140, 1, -9>>, <<8152, 8153, 1, -8>>,
      <<8154, 8155, 1, -100>>, <<8168, 8169, 1, -8>>,
      <<8170, 8171, 1, -112>>, <<8172, 8172, 1, -7>>,
      <<8184, 8185, 1, -128>>, <<8186, 8187, 1, -126>>,
      <<8188, 8188, 1, -9>>, <<8486, 8486, 1, -7517>>,
      <<8490, 8490, 1, -8383>>, <<8491, 8491, 1, -8262>>,
      <<8498, 8498, 1, 28>>, <<8544, 8559, 1, 16>>,
      <<8579, 8579, 1, 1>>, <<9398, 9423, 1, 26>>,
      <<11264, 11311, 1, 48>>, <<11360, 11360, 1, 1>>,
      <<11362, 11362, 1, -10743>>, <<11363, 11363, 1, -3814>>,
      <<11364, 11364, 1, -10727>>, <<11367, 11371, 2, 1>>,
      <<11373, 11373, 1, -10780>>, <<11374, 11374, 1, -10749>>,
      <<11375, 11375, 1, -10783>>, <<11376, 11376, 1, -10782>>,
      <<11378, 11378, 1, 1>>, <<11381, 11381, 1, 1>>,
      <<11390, 11391, 1, -10815>>, <<11392, 11490, 2, 1>>,
      <<11499, 11501, 2, 1>>, <<11506, 11506, 1, 1>>,
      <<42560, 42604, 2, 1>>, <<42624, 42650, 2, 1>>,
      <<42786, 42798, 2, 1>>, <<42802, 42862, 2, 1>>,
      <<42873, 42875, 2, 1>>, <<42877, 42877, 1, -35332>>,
      <<42878, 42886, 2, 1>>, <<42891, 42891, 1, 1>>,
      <<42893, 42893, 1, -42280>>, <<42896, 42898, 2, 1>>,
      <<42902, 42920, 2, 1>>, <<42922, 42922, 1, -42308>>,
      <<42923, 42923, 1, -42319>>, <<42924, 42924, 1, -42315>>,
      <<42925, 42925, 1, -42305>>, <<42926, 42926, 1, -42308>>,
      <<42928, 42928, 1, -42258>>, <<42929, 42929, 1, -42282>>,
      <<42930, 42930, 1, -42261>>, <<42931, 42931, 1, 928>>,
      <<42932, 42946, 2, 1>>, <<42948, 42948, 1, -48>>,
      <<42949, 42949, 1, -42307>>, <<42950, 42950, 1, -35384>>,
      <<42951, 42953, 2, 1>>, <<42960, 42960, 1, 1>>,
      <<42966, 42968, 2, 1>>, <<42997, 42997, 1, 1>>,
      <<65313, 65338, 1, 32>>, <<66560, 66599, 1, 40>>,
      <<66736, 66771, 1, 40>>, <<66928, 66938, 1, 39>>,
      <<66940, 66954, 1, 39>>, <<66956, 66962, 1, 39>>,
      <<66964, 66965, 1, 39>>, <<68736, 68786, 1, 64>>,
      <<71840, 71871, 1, 32>>, <<93760, 93791, 1, 32>>,
      <<125184, 125217, 1, 34>> >>

\* <<first, last>>: the cased characters (lower case, upper case, title case)
CasedRanges ==
    <<
      <<65, 90>>, <<97, 122>>, <<170, 170>>,
      <<181, 181>>, <<186, 186>>, <<192, 214>>,
      <<216, 246>>, <<248, 442>>, <<444, 447>>,
      <<452, 659>>, <<661, 696>>, <<704, 705>>,
      <<736, 740>>, <<837, 837>>, <<880, 883>>,
      <<886, 887>>, <<890, 893>>, <<895, 895>>,
      <<902, 902>>, <<904, 906>>, <<908, 908>>,
      <<910, 929>>, <<931, 1013>>, <<1015, 1153>>,
      <<1162, 1327>>, <<1329, 1366>>, <<1376, 1416>>,
      <<4256, 4293>>, <<4295, 4295>>, <<4301, 4301>>,
      <<4304, 4346>>, <<4349, 4351>>, <<5024, 5109>>,
      <<5112, 5117>>, <<7296, 7304>>, <<7312, 7354>>,
      <<7357, 7359>>, <<7424, 7615>>, <<7680, 7957>>,
      <<7960, 7965>>, <<7968, 8005>>, <<8008, 8013>>,
      <<8016, 8023>>, <<8025, 8025>>, <<8027, 8027>>,
      <<8029, 8029>>, <<8031, 8061>>, <<8064, 8116>>,
      <<8118, 8124>>, <<8126, 8126>>, <<8130, 8132>>,
      <<8134, 8140>>, <<8144, 8147>>, <<8150, 8155>>,
      <<8160, 8172>>, <<8178, 8180>>, <<8182, 8188>>,
      <<8305, 8305>>, <<8319, 8319>>, <<8336, 8348>>,
      <<8450, 8450>>, <<8455, 8455>>, <<8458, 8467>>,
      <<8469, 8469>>, <<8473, 8477>>, <<8484, 8484>>,
      <<8486, 8486>>, <<8488, 8488>>, <<8490, 8493>>,
      <<8495, 8500>>, <<8505, 8505>>, <<8508, 8511>>,
      <<8517, 8521>>, <<8526, 8526>>, <<8544, 8575>>,
      <<8579, 8580>>, <<9398, 9449>>, <<11264, 11492>>,
      <<11499, 11502>>, <<11506, 11507>>, <<11520, 11557>>,
      <<11559, 11559>>, <<11565, 11565>>, <<42560, 42605>>,
      <<42624, 42653>>, <<42786, 42887>>, <<42891, 42894>>,
      <<42896, 42954>>, <<42960, 42961>>, <<42963, 42963>>,
      <<42965, 42969>>, <<42997, 42998>>, <<43000, 43002>>,
      <<43824, 43866>>, <<43868, 43880>>, <<43888, 43967>>,
      <<64256, 64262>>, <<64275, 64279>>, <<65313, 65338>>,
      <<65345, 65370>>, <<66560, 66639>>, <<66736, 66771>>,
      <<66776, 66811>>, <<66928, 66938>>, <<66940, 66954>>,
      <<66956, 66962>>, <<66964, 66965>>, <<66967, 66977>>,
      <<66979, 66993>>, <<66995, 67001>>, <<67003, 67004>>,
      <<67456, 67456>>, <<67459, 67461>>, <<67463, 67504>>,
      <<67506, 67514>>, <<68736, 68786>>, <<68800, 68850>>,
      <<71840, 71903>>, <<93760, 93823>>, <<119808, 119892>>,
      <<119894, 119964>>, <<119966, 119967>>, <<119970, 119970>>,
      <<119973, 119974>>, <<119977, 119980>>, <<119982, 119993>>,
      <<119995, 119995>>, <<119997, 120003>>, <<120005, 120069>>,
      <<120071, 120074>>, <<120077, 120084>>, <<120086, 120092>>,
      <<120094, 120121>>, <<120123, 120126>>, <<120128, 120132>>,
      <<120134, 120134>>, <<120138, 120144>>, <<120146, 120485>>,
      <<120488, 120512>>, <<120514, 120538>>, <<120540, 120570>>,
      <<120572, 120596>>, <<120598, 120628>>, <<120630, 120654>>,
      <<120656, 120686>>, <<120688, 120712>>, <<120714, 120744>>,
      <<120746, 120770>>, <<120772, 120779>>, <<122624, 122633>>,
      <<122635, 122654>>, <<125184, 125251>>, <<127280, 127305>>,
      <<127312, 127337>>, <<127344, 127369>> >>

\* <<first, last>>: the case-ignorable characters
CaseIgnorableRanges ==
    <<
      <<39, 39>>, <<46, 46>>, <<58, 58>>,
      <<94, 94>>, <<96, 96>>, <<168, 168>>,
      <<173, 173>>, <<175, 175>>, <<180, 180>>,
      <<183, 184>>, <<688, 879>>, <<884, 885>>,
      <<890, 890>>, <<900, 901>>, <<903, 903>>,
      <<1155, 1161>>, <<1369, 1369>>, <<1375, 1375>>,
      <<1425, 1469>>, <<1471, 1471>>, <<1473, 1474>>,
      <<1476, 1477>>, <<1479, 1479>>, <<1524, 1524>>,
      <<1536, 1541>>, <<1552, 1562>>, <<1564, 1564>>,
      <<1600, 1600>>, <<1611, 1631>>, <<1648, 1648>>,
      <<1750, 1757>>, <<1759, 1768>>, <<1770, 1773>>,
      <<1807, 1807>>, <<1809, 1809>>, <<1840, 1866>>,
      <<1958, 1968>>, <<2027, 2037>>, <<2042, 2042>>,
      <<2045, 2045>>, <<2070, 2093>>, <<2137, 2139>>,
      <<2184, 2184>>, <<2192, 2193>>, <<2200, 2207>>,
      <<2249, 2306>>, <<2362, 2362>>, <<2364, 2364>>,
      <<2369, 2376>>, <<2381, 2381>>, <<2385, 2391>>,
      <<2402, 2403>>, <<2417, 2417>>, <<2433, 2433>>,
      <<2492, 2492>>, <<2497, 2500>>, <<2509, 2509>>,
      <<2530, 2531>>, <<2558, 2558>>, <<2561, 2562>>,
      <<2620, 2620>>, <<2625, 2626>>, <<2631, 2632>>,
      <<2635, 2637>>, <<2641, 2641>>, <<2672, 2673>>,
      <<2677, 2677>>, <<2689, 2690>>, <<2748, 2748>>,
      <<2753, 2757>>, <<2759, 2760>>, <<2765, 2765>>,
      <<2786, 2787>>, <<2810, 2815>>, <<2817, 2817>>,
      <<2876, 2876>>, <<2879, 2879>>, <<2881, 2884>>,
      <<2893, 2893>>, <<2901, 2902>>, <<2914, 2915>>,
      <<2946, 2946>>, <<3008, 3008>>, <<3021, 3021>>,
      <<3072, 3072>>, <<3076, 3076>>, <<3132, 3132>>,
      <<3134, 3136>>, <<3142, 3144>>, <<3146, 3149>>,
      <<3157, 3158>>, <<3170, 3171>>, <<3201, 3201>>,
      <<3260, 3260>>, <<3263, 3263>>, <<3270, 3270>>,
      <<3276, 3277>>, <<3298, 3299>>, <<3328, 3329>>,
      <<3387, 3388>>, <<3393, 3396>>, <<3405, 3405>>,
      <<3426, 3427>>, <<3457, 3457>>, <<3530, 3530>>,
      <<3538, 3540>>, <<3542, 3542>>, <<3633, 3633>>,
      <<3636, 3642>>, <<3654, 3662>>, <<3761, 3761>>,
      <<3764, 3772>>, <<3782, 3782>>, <<3784, 3789>>,
      <<3864, 3865>>, <<3893, 3893>>, <<3895, 3895>>,
      <<3897, 3897>>, <<3953, 3966>>, <<3968, 3972>>,
      <<3974, 3975>>, <<3981, 3991>>, <<3993, 4028>>,
      <<4038, 4038>>, <<4141, 4144>>, <<4146, 4151>>,
      <<4153, 4154>>, <<4157, 4158>>, <<4184, 4185>>,
      <<4190, 4192>>, <<4209, 4212>>, <<4226, 4226>>,
      <<4229, 4230>>, <<4237, 4237>>, <<4253, 4253>>,
      <<4348, 4348>>, <<4957, 4959>>, <<5906, 5908>>,
      <<5938, 5939>>, <<5970, 5971>>, <<6002, 6003>>,
      <<6068, 6069>>, <<6071, 6077>>, <<6086, 6086>>,
      <<6089, 6099>>, <<6103, 6103>>, <<6109, 6109>>,
      <<6155, 6159>>, <<6211, 6211>>, <<6277, 6278>>,
      <<6313, 6313>>, <<6432, 6434>>, <<6439, 6440>>,
      <<6450, 6450>>, <<6457, 6459>>, <<6679, 6680>>,
      <<6683, 6683>>, <<6742, 6742>>, <<6744, 6750>>,
      <<6752, 6752>>, <<6754, 6754>>, <<6757, 6764>>,
      <<6771, 6780>>, <<6783, 6783>>, <<6823, 6823>>,
      <<6832, 6862>>, <<6912, 6915>>, <<6964, 6964>>,
      <<6966, 6970>>, <<6972, 6972>>, <<6978, 6978>>,
      <<7019, 7027>>, <<7040, 7041>>, <<7074, 7077>>,
      <<7080, 7081>>, <<7083, 7085>>, <<7142, 7142>>,
      <<7144, 7145>>, <<7149, 7149>>, <<7151, 7153>>,
      <<7212, 7219>>, <<7222, 7223>>, <<7288, 7293>>,
      <<7376, 7378>>, <<7380, 7392>>, <<7394, 7400>>,
      <<7405, 7405>>, <<7412, 7412>>, <<7416, 7417>>,
      <<7468, 7530>>, <<7544, 7544>>, <<7579, 7679>>,
      <<8125, 8125>>, <<8127, 8129>>, <<8141, 8143>>,
      <<8157, 8159>>, <<8173, 8175>>, <<8189, 8190>>,
      <<8203, 8207>>, <<8216, 8217>>, <<8228, 8228>>,
      <<8231, 8231>>, <<8234, 8238>>, <<8288, 8292>>,
      <<8294, 8303>>, <<8305, 8305>>, <<8319, 8319>>,
      <<8336, 8348>>, <<8400, 8432>>, <<11388, 11389>>,
      <<11503, 11505>>, <<11631, 11631>>, <<11647, 11647>>,
      <<11744, 11775>>, <<11823, 11823>>, <<12293, 12293>>,
      <<12330, 12333>>, <<12337, 12341>>, <<12347, 12347>>,
      <<12441, 12446>>, <<12540, 12542>>, <<40981, 40981>>,
      <<42232, 42237>>, <<42508, 42508>>, <<42607, 42610>>,
      <<42612, 42621>>, <<42623, 42623>>, <<42652, 42655>>,
      <<42736, 42737>>, <<42752, 42785>>, <<42864, 42864>>,
      <<42888, 42890>>, <<42994, 42996>>, <<43000, 43001>>,
      <<43010, 43010>>, <<43014, 43014>>, <<43019, 43019>>,
      <<43045, 43046>>, <<43052, 43052>>, <<43204, 43205>>,
      <<43232, 43249>>, <<43263, 43263>>, <<43302, 43309>>,
      <<43335, 43345>>, <<43392, 43394>>, <<43443, 43443>>,
      <<43446, 43449>>, <<43452, 43453>>, <<43471, 43471>>,
      <<43493, 43494>>, <<43561, 43566>>, <<43569, 43570>>,
      <<43573, 43574>>, <<43587, 43587>>, <<43596, 43596>>,
      <<43632, 43632>>, <<43644, 43644>>, <<43696, 43696>>,
      <<43698, 43700>>, <<43703, 43704>>, <<43710, 43711>>,
      <<43713, 43713>>, <<43741, 43741>>, <<43756, 43757>>,
      <<43763, 43764>>, <<43766, 43766>>, <<43867, 43871>>,
      <<43881, 43883>>, <<44005, 44005>>, <<44008, 44008>>,
      <<44013, 44013>>, <<64286, 64286>>, <<64434, 64450>>,
      <<65024, 65039>>, <<65043, 65043>>, <<65056, 65071>>,
      <<65106, 65106>>, <<65109, 65109>>, <<65279, 65279>>,
      <<65287, 65287>>, <<65294, 65294>>, <<65306, 65306>>,
      <<65342, 65342>>, <<65344, 65344>>, <<65392, 65392>>,
      <<65438, 65439>>, <<65507, 65507>>, <<65529, 65531>>,
      <<66045, 66045>>, <<66272, 66272>>, <<66422, 66426>>,
      <<67456, 67461>>, <<67463, 67504>>, <<67506, 67514>>,
      <<68097, 68099>>, <<68101, 68102>>, <<68108, 68111>>,
      <<68152, 68154>>, <<68159, 68159>>, <<68325, 68326>>,
      <<68900, 68903>>, <<69291, 69292>>, <<69446, 69456>>,
      <<69506, 69509>>, <<69633, 69633>>, <<69688, 69702>>,
      <<69744, 69744>>, <<69747, 69748>>, <<69759, 69761>>,
      <<69811, 69814>>, <<69817, 69818>>, <<69821, 69821>>,
      <<69826, 69826>>, <<69837, 69837>>, <<69888, 69890>>,
      <<69927, 69931>>, <<69933, 69940>>, <<70003, 70003>>,
      <<70016, 70017>>, <<70070, 70078>>, <<70089, 70092>>,
      <<70095, 70095>>, <<70191, 70193>>, <<70196, 70196>>,
      <<70198, 70199>>, <<70206, 70206>>, <<70367, 70367>>,
      <<70371, 70378>>, <<70400, 70401>>, <<70459, 70460>>,
      <<70464, 70464>>, <<70502, 70508>>, <<70512, 70516>>,
      <<70712, 70719>>, <<70722, 70724>>, <<70726, 70726>>,
      <<70750, 70750>>, <<70835, 70840>>, <<70842, 70842>>,
      <<70847, 70848>>, <<70850, 70851>>, <<71090, 71093>>,
      <<71100, 71101>>, <<71103, 71104>>, <<71132, 71133>>,
      <<71219, 71226>>, <<71229, 71229>>, <<71231, 71232>>,
      <<71339, 71339>>, <<71341, 71341>>, <<71344, 71349>>,
      <<71351, 71351>>, <<71453, 71455>>, <<71458, 71461>>,
      <<71463, 71467>>, <<71727, 71735>>, <<71737, 71738>>,
      <<71995, 71996>>, <<71998, 71998>>, <<72003, 72003>>,
      <<72148, 72151>>, <<72154, 72155>>, <<72160, 72160>>,
      <<72193, 72202>>, <<72243, 72248>>, <<72251, 72254>>,
      <<72263, 72263>>, <<72273, 72278>>, <<72281, 72283>>,
      <<72330, 72342>>, <<72344, 72345>>, <<72752, 72758>>,
      <<72760, 72765>>, <<72767, 72767>>, <<72850, 72871>>,
      <<72874, 72880>>, <<72882, 72883>>, <<72885, 72886>>,
      <<73009, 73014>>, <<73018, 73018>>, <<73020, 73021>>,
      <<73023, 73029>>, <<73031, 73031>>, <<73104, 73105>>,
      <<73109, 73109>>, <<73111, 73111>>, <<73459, 73460>>,
      <<78896, 78904>>, <<92912, 92916>>, <<92976, 92982>>,
      <<92992, 92995>>, <<94031, 94031>>, <<94095, 94111>>,
      <<94176, 94177>>, <<94179, 94180>>, <<110576, 110579>>,
      <<110581, 110587>>, <<110589, 110590>>, <<113821, 113822>>,
      <<113824, 113827>>, <<118528, 118573>>, <<118576, 118598>>,
      <<119143, 119145>>, <<119155, 119170>>, <<119173, 119179>>,
      <<119210, 119213>>, <<119362, 119364>>, <<121344, 121398>>,
      <<121403, 121452>>, <<121461, 121461>>, <<121476, 121476>>,
      <<121499, 121503>>, <<121505, 121519>>, <<122880, 122886>>,
      <<122888, 122904>>, <<122907, 122913>>, <<122915, 122916>>,
      <<122918, 122922>>, <<123184, 123197>>, <<123566, 123566>>,
      <<123628, 123631>>, <<125136, 125142>>, <<125252, 125259>>,
      <<127995, 127999>>, <<917505, 917505>>, <<917536, 917631>>,
      <<917760, 917999>> >>


InRanges(cp, ranges) ==
    \E n \in 1..Len(ranges) : ranges[n][1] <= cp /\ cp <= ranges[n][2]

\* the range r of LowerRanges holds the code point cp
Lowers(r, cp) == r[1] <= cp /\ cp <= r[2] /\ (cp - r[1]) % r[3] = 0

\* c.lower() for one character c: a text of one character, of two for
\* 'İ' (capital I with dot above)
LowerChar(c) ==
    IF Len(c) = 1
    THEN IF \E k \in 1..26 : UpperLetters[k] = c
         THEN <<LowerLetters[CHOOSE k \in 1..26 : UpperLetters[k] = c]>>
         ELSE <<c>>
    ELSE IF CodeOf(c) = 304 THEN <<"i", CharOf(775)>>
    ELSE IF \E n \in 1..Len(LowerRanges) : Lowers(LowerRanges[n], CodeOf(c))
    THEN <<CharOf(CodeOf(c)
                    + LowerRanges[CHOOSE n \in 1..Len(LowerRanges) :
                                      Lowers(LowerRanges[n], CodeOf(c))][4])>>
    ELSE <<c>>

\* the Greek capital sigma and its two lower-case forms
CapitalSigma == CharOf(931)
FinalSmallSigma == CharOf(962)
SmallSigma == CharOf(963)

IsCased(c) == InRanges(CodeOf(c), CasedRanges)
IsCaseIgnorable(c) == InRanges(CodeOf(c), CaseIgnorableRanges)

\* the capital sigma at position k ends a word: before it, case-ignorable
\* characters skipped, stands a cased character, and after it does not
FinalSigma(s, k) ==
    LET before == {j \in 1..(k - 1) : ~IsCaseIgnorable(s[j])}
        after == {j \in (k + 1)..Len(s) : ~IsCaseIgnorable(s[j])}
    IN  /\ before # {}
        /\ IsCased(s[CHOOSE j \in before : \A h \in before : h <= j])
        /\ \/ after = {}
           \/ ~IsCased(s[CHOOSE j \in after : \A h \in after : j <= h])

\* what the character at position k of s is lowered to
LowerAt(s, k) ==
    IF s[k] = CapitalSigma
    THEN <<IF FinalSigma(s, k) THEN FinalSmallSigma ELSE SmallSigma>>
    ELSE LowerChar(s[k])

RECURSIVE LowerFrom(_, _)
LowerFrom(s, k) ==
    IF k > Len(s) THEN <<>> ELSE LowerAt(s, k) \o LowerFrom(s, k + 1)

\* str.lower()
lower(s) == LowerFrom(s, 1)

\* p in s
Contains(s, p) ==
    \E k \in 1..(Len(s) - Len(p) + 1) : SubSeq(s, k, k + Len(p) - 1) = p

\* str.split(sep) for a non-empty separator: leftmost, non-overlapping
RECURSIVE split(_, _)
split(s, sep) ==
    IF Contains(s, sep)
    THEN LET k == CHOOSE j \in 1..(Len(s) - Len(sep) + 1) :
                      /\ SubSeq(s, j, j + Len(sep) - 1) = sep
                      /\ \A h \in 1..(j - 1) : SubSeq(s, h, h + Len(sep) - 1) # sep
         IN  <<SubSeq(s, 1, k - 1)>> \o split(SubSeq(s, k + Len(sep), Len(s)), sep)
    ELSE <<s>>

\* sep.join(parts)
RECURSIVE join(_, _)
join(sep, parts) ==
    IF parts = <<>> THEN <<>>
    ELSE IF Len(parts) = 1 THEN parts[1]
    ELSE parts[1] \o sep \o join(sep, Tail(parts))

\* sys.get_int_max_str_digits(): int() raises ValueError for more digits
MaxStrDigits == 4300

\* int(s): optional surrounding whitespace, optional sign, decimal digits
\* with single underscores allowed between digits; anything else raises
\* ValueError.
IntTrim(s) == RightTrim(LeftTrim(s, IntWhitespace), IntWhitespace)

IntBody(s) ==
    LET t == IntTrim(s)
    IN  IF t # <<>> /\ Head(t) \in {"+", "-"} THEN Tail(t) ELSE t

int_ok(s) ==
    LET u == IntBody(s)
    IN  /\ u # <<>>
        /\ \A k \in 1..Len(u) :
              \/ u[k] \in Digits
              \/ /\ u[k] = "_"
                 /\ 1 < k /\ k < Len(u)
                 /\ u[k - 1] \in Digits /\ u[k + 1] \in Digits
        /\ \/ Len(u) <= MaxStrDigits
           \/ Cardinality({k \in 1..Len(u) : u[k] \in Digits}) <= MaxStrDigits

RECURSIVE DecVal(_, _)
DecVal(u, acc) ==
    IF u = <<>> THEN acc
    ELSE IF Head(u) = "_" THEN DecVal(Tail(u), acc)
    ELSE DecVal(Tail(u), 10 * acc + DigitVal(Head(u)))

\* the value of int(s) when int_ok(s).  A Python int has no bound; the
\* value is computed here in integers that end
\* at 2^31 - 1, far above every id of the inputs below
int_val(s) ==
    LET t == IntTrim(s)
        v == DecVal(IntBody(s), 0)
    IN  IF t # <<>> /\ Head(t) = "-" THEN 0 - v ELSE v

\* re.match(r'^\d+$', s): one or more digits, '$' also matching before a
\* single trailing newline
MatchDigits(s) ==
    LET t == IF s # <<>> /\ s[Len(s)] = NL THEN SubSeq(s, 1, Len(s) - 1) ELSE s
    IN  t # <<>> /\ \A k \in 1..Len(t) : t[k] \in Digits

Arrow == <<"-", "-", ">">>

\* ------------------------------------------------------------------------
\* parse_srt
\* ------------------------------------------------------------------------
\* f.read() of a file opened in text mode that holds the text: '\r\n' and
\* '\r' are read as '\n'
RECURSIVE read(_)
read(text) ==
    IF text = <<>> THEN <<>>
    ELSE IF Head(text) # CR THEN <<Head(text)>> \o read(Tail(text))
    ELSE IF Len(text) >= 2 /\ text[2] = NL
    THEN <<NL>> \o read(SubSeq(text, 3, Len(text)))
    ELSE <<NL>> \o read(Tail(text))

BlockLines(block) == split(strip(block), <<NL>>)

Blocks(content) == split(strip(content), <<NL, NL>>)

\* variant: int(lines[0]) is evaluated for every block, whatever its length
parse_failsEager(text) ==
    \E b \in 1..Len(Blocks(read(text))) :
        ~int_ok(BlockLines(Blocks(read(text))[b])[1])

\* parse_srt of the file holding the text raises ValueError when a block of
\* three or more lines has a first line int() rejects
parse_fails(text) ==
    \E b \in 1..Len(Blocks(read(text))) :
        LET lines == BlockLines(Blocks(read(text))[b])
        IN  Len(lines) >= 3 /\ ~int_ok(lines[1])

RECURSIVE ParseBlocks(_)
ParseBlocks(blocks) ==
    IF blocks = <<>> THEN <<>>
    ELSE LET lines == BlockLines(Head(blocks))
         IN  IF Len(lines) >= 3
             THEN <<[id |-> int_val(lines[1]),
                     timing |-> lines[2],
                     original_text |-> join(<<NL>>, SubSeq(lines, 3, Len(lines))),
                     translated_text |-> <<>>,
                     needs_review |-> FALSE]>> \o ParseBlocks(Tail(blocks))
             ELSE ParseBlocks(Tail(blocks))

\* variant: the entries are returned sorted by id
RECURSIVE InsertById(_, _)
InsertById(e, sorted) ==
    IF sorted = <<>> THEN <<e>>
    ELSE IF e.id < Head(sorted).id THEN <<e>> \o sorted
    ELSE <<Head(sorted)>> \o InsertById(e, Tail(sorted))

RECURSIVE SortById(_)
SortById(es) ==
    IF es = <<>> THEN <<>>
    ELSE InsertById(es[Len(es)], SortById(SubSeq(es, 1, Len(es) - 1)))

parse_srtSorted(text) == SortById(ParseBlocks(Blocks(read(text))))

\* parse_srt of the file holding the text
parse_srt(text) == ParseBlocks(Blocks(read(text)))

\* ------------------------------------------------------------------------
\* Structural lines: the skip test of interactive_review
\* ------------------------------------------------------------------------
\* variant: only the number test
IsStructuralNumberOnly(text) == MatchDigits(strip(text))

IsStructural(text) == MatchDigits(strip(text)) \/ Contains(text, Arrow)

\* ------------------------------------------------------------------------
\* Translation memory: a mapping from source text to translated text
\* ------------------------------------------------------------------------
EmptyMap == [k \in {} |-> <<>>]

\* self.translation_memory[key] = value
Put(mem, key, value) ==
    [k \in (DOMAIN mem) \cup {key} |-> IF k = key THEN value ELSE mem[k]]

\* The file translation_memory.json: absent, unparsable, or a JSON object
AbsentStore == [kind |-> "absent", data |-> EmptyMap]
CorruptStore == [kind |-> "corrupt", data |-> EmptyMap]

\* --- json.dump(mapping, f, ensure_ascii=False, indent=2) -------------------
\* the JSON escape of one character of a string: quote, backslash and the
\* characters below 0x20 are escaped, every other character is written as
\* it is
EscapeChar(c) ==
    IF c = Quote THEN <<Backslash, Quote>>
    ELSE IF c = Backslash THEN <<Backslash, Backslash>>
    ELSE IF c = NL THEN <<Backslash, "n">>
    ELSE IF c = CR THEN <<Backslash, "r">>
    ELSE IF c = Tab THEN <<Backslash, "t">>
    ELSE IF c = FF THEN <<Backslash, "f">>
    ELSE IF c = ControlSeq[9] THEN <<Backslash, "b">>
    ELSE IF c \in ControlChars
    THEN LET n == (CHOOSE m \in 1..32 : ControlSeq[m] = c) - 1
         IN  <<Backslash, "u", "0", "0", HexChars[(n \div 16) + 1],
               HexChars[(n % 16) + 1]>>
    ELSE <<c>>

RECURSIVE EscapeAll(_)
EscapeAll(s) == IF s = <<>> THEN <<>> ELSE EscapeChar(Head(s)) \o EscapeAll(Tail(s))

json_string(s) == <<Quote>> \o EscapeAll(s) \o <<Quote>>

\* the orders the keys of the dict can be in: a dict keeps its keys in the
\* order they were inserted, the mapping of the model keeps no order
KeyOrders(keys) ==
    {ks \in [1..Cardinality(keys) -> keys] :
        \A a, b \in 1..Cardinality(keys) : a # b => ks[a] # ks[b]}

\* the texts json.dump hands to f.write for the n-th member: the separator,
\* the key, the colon, the value
json_member(mem, ks, n) ==
    << IF n = 1 THEN <<NL, " ", " ">> ELSE <<",", NL, " ", " ">>,
       json_string(ks[n]), <<":", " ">>, json_string(mem[ks[n]]) >>

RECURSIVE json_members(_, _, _)
json_members(mem, ks, n) ==
    IF n > Len(ks) THEN <<>>
    ELSE json_member(mem, ks, n) \o json_members(mem, ks, n + 1)

\* the texts json.dump hands to f.write, one after the other, for the
\* mapping whose keys are in the order ks
json_chunks(mem, ks) ==
    IF ks = <<>> THEN << <<"{", "}">> >>
    ELSE << <<"{">> >> \o json_members(mem, ks, 1) \o << <<NL>>, <<"}">> >>

\* the texts one after the other
RECURSIVE Concat(_)
Concat(texts) ==
    IF texts = <<>> THEN <<>> ELSE Head(texts) \o Concat(Tail(texts))

\* the text of the mapping whose keys are in the order ks
json_dumps(mem, ks) == Concat(json_chunks(mem, ks))

\* f.write(text) raises UnicodeEncodeError for a text with a lone
\* surrogate.  A with block whose writes are these ends at the first write
\* that raises, and the file holds what was written before it.
write_fails(writes) == \E n \in 1..Len(writes) : ~Encodable(writes[n])

RECURSIVE Written(_)
Written(writes) ==
    IF writes = <<>> \/ ~Encodable(Head(writes)) THEN <<>>
    ELSE Head(writes) \o Written(Tail(writes))

\* --- json.load(f) ----------------------------------------------------------
JsonWhitespace == {" ", Tab, NL, CR}

RECURSIVE SkipWs(_, _)
SkipWs(t, p) ==
    IF p <= Len(t) /\ t[p] \in JsonWhitespace THEN SkipWs(t, p + 1) ELSE p

\* the character at position p, "" past the end
At(t, p) == IF 1 <= p /\ p <= Len(t) THEN t[p] ELSE ""

StartsWith(t, p, w) ==
    p + Len(w) - 1 <= Len(t) /\ SubSeq(t, p, p + Len(w) - 1) = w

Fail(p) == [ok |-> FALSE, value |-> <<>>, next |-> p]

\* the character a one-letter escape stands for
Unescape(c) ==
    IF c = "n" THEN NL
    ELSE IF c = "t" THEN Tab
    ELSE IF c = "r" THEN CR
    ELSE IF c = "f" THEN FF
    ELSE IF c = "b" THEN ControlSeq[9]
    ELSE c

\* the four hexadecimal digits after \u at positions p to p + 3
HasHex4(t, p) == p + 3 <= Len(t) /\ \A k \in p..(p + 3) : IsHex(t[k])
Hex4(t, p) ==
    4096 * HexVal(t[p]) + 256 * HexVal(t[p + 1])
        + 16 * HexVal(t[p + 2]) + HexVal(t[p + 3])

\* reads a string whose opening quote is before position p
RECURSIVE ReadString(_, _, _)
ReadString(t, p, acc) ==
    IF p > Len(t) THEN Fail(p)
    ELSE IF t[p] = Quote THEN [ok |-> TRUE, value |-> acc, next |-> p + 1]
    ELSE IF t[p] \in ControlChars THEN Fail(p)
    ELSE IF t[p] # Backslash THEN ReadString(t, p + 1, Append(acc, t[p]))
    ELSE IF At(t, p + 1) \in {Quote, Backslash, "/", "b", "f", "n", "r", "t"}
    THEN ReadString(t, p + 2, Append(acc, Unescape(t[p + 1])))
    ELSE IF At(t, p + 1) = "u" /\ HasHex4(t, p + 2)
    THEN LET uni == Hex4(t, p + 2)
             paired == /\ 55296 <= uni /\ uni <= 56319
                       /\ At(t, p + 6) = Backslash /\ At(t, p + 7) = "u"
                       /\ HasHex4(t, p + 8)
                       /\ 56320 <= Hex4(t, p + 8) /\ Hex4(t, p + 8) <= 57343
         IN  IF paired
             THEN ReadString(t, p + 12,
                      Append(acc, CharOf(65536 + (uni - 55296) * 1024
                                             + (Hex4(t, p + 8) - 56320))))
             ELSE ReadString(t, p + 6, Append(acc, CharOf(uni)))
    ELSE Fail(p)

\* body(x), x being computed once
WithValue(x, body(_)) == CHOOSE v \in {body(y) : y \in {x}} : TRUE

json_string_at(t, p) ==
    IF At(t, p) = Quote THEN ReadString(t, p + 1, <<>>) ELSE Fail(p)

SkipDigits(t, p) ==
    LET stops == {q \in p..(Len(t) + 1) : At(t, q) \notin AsciiDigits}
    IN  CHOOSE q \in stops : \A h \in stops : q <= h

\* -?(0|[1-9]\d*)(\.\d+)?([eE][-+]?\d+)? at position p; a number without
\* fraction and exponent is handed to int(), which raises for more than
\* MaxStrDigits digits
ReadNumber(t, p) ==
    LET q == IF At(t, p) = "-" THEN p + 1 ELSE p
        q1 == IF At(t, q) = "0" THEN q + 1 ELSE SkipDigits(t, q)
        q2 == IF At(t, q1) = "." /\ At(t, q1 + 1) \in AsciiDigits
              THEN SkipDigits(t, q1 + 2) ELSE q1
        r == IF At(t, q2 + 1) \in {"+", "-"} THEN q2 + 2 ELSE q2 + 1
        q3 == IF At(t, q2) \in {"e", "E"} /\ At(t, r) \in AsciiDigits
              THEN SkipDigits(t, r + 1) ELSE q2
    IN  IF q1 = q \/ (q3 = q1 /\ q1 - q > MaxStrDigits) THEN Fail(p)
        ELSE [ok |-> TRUE,
              value |-> [type |-> "number", v |-> SubSeq(t, p, q3 - 1)],
              next |-> q3]

Words ==
    { <<"n", "u", "l", "l">>, <<"t", "r", "u", "e">>,
      <<"f", "a", "l", "s", "e">>, <<"N", "a", "N">>,
      <<"I", "n", "f", "i", "n", "i", "t", "y">>,
      <<"-", "I", "n", "f", "i", "n", "i", "t", "y">> }

\* a JSON value at position p: [type, v], v being the text of a string or
\* of a number, the word of a constant, the list of the elements of an
\* array, the mapping of the keys of an object to their values
RECURSIVE ReadValue(_, _)
RECURSIVE ReadMembers(_, _, _)
RECURSIVE ReadElements(_, _, _)
ReadValue(t, p) ==
    IF At(t, p) = Quote
    THEN WithValue(ReadString(t, p + 1, <<>>), LAMBDA string :
             IF string.ok
             THEN [ok |-> TRUE,
                   value |-> [type |-> "string", v |-> string.value],
                   next |-> string.next]
             ELSE Fail(p))
    ELSE IF At(t, p) = "{"
    THEN WithValue(SkipWs(t, p + 1), LAMBDA q :
             IF At(t, q) = "}"
             THEN [ok |-> TRUE,
                   value |-> [type |-> "object", v |-> EmptyMap],
                   next |-> q + 1]
             ELSE ReadMembers(t, q, EmptyMap))
    ELSE IF At(t, p) = "["
    THEN WithValue(SkipWs(t, p + 1), LAMBDA q :
             IF At(t, q) = "]"
             THEN [ok |-> TRUE,
                   value |-> [type |-> "array", v |-> <<>>],
                   next |-> q + 1]
             ELSE ReadElements(t, q, <<>>))
    ELSE WithValue(ReadNumber(t, p), LAMBDA number :
             IF number.ok THEN number
             ELSE IF \E w \in Words : StartsWith(t, p, w)
             THEN LET w == CHOOSE x \in Words : StartsWith(t, p, x)
                  IN  [ok |-> TRUE,
                       value |-> [type |-> "constant", v |-> w],
                       next |-> p + Len(w)]
             ELSE Fail(p))

\* reads "key": value pairs from position p up to the closing brace; of
\* two members with one key the later one stays
ReadMembers(t, p, acc) ==
    WithValue(json_string_at(t, p), LAMBDA key :
    WithValue(SkipWs(t, key.next), LAMBDA colon :
        IF ~key.ok \/ At(t, colon) # ":" THEN Fail(p)
        ELSE
    WithValue(ReadValue(t, SkipWs(t, colon + 1)), LAMBDA val :
    WithValue(SkipWs(t, val.next), LAMBDA after :
        IF ~val.ok THEN Fail(p)
        ELSE IF At(t, after) = ","
        THEN ReadMembers(t, SkipWs(t, after + 1),
                         Put(acc, key.value, val.value))
        ELSE IF At(t, after) = "}"
        THEN [ok |-> TRUE,
              value |-> [type |-> "object",
                         v |-> Put(acc, key.value, val.value)],
              next |-> after + 1]
        ELSE Fail(p)))))

\* reads the elements of an array from position p up to the closing bracket
ReadElements(t, p, acc) ==
    WithValue(ReadValue(t, p), LAMBDA val :
    WithValue(SkipWs(t, val.next), LAMBDA after :
        IF ~val.ok THEN Fail(p)
        ELSE IF At(t, after) = ","
        THEN ReadElements(t, SkipWs(t, after + 1), Append(acc, val.value))
        ELSE IF At(t, after) = "]"
        THEN [ok |-> TRUE,
              value |-> [type |-> "array", v |-> Append(acc, val.value)],
              next |-> after + 1]
        ELSE Fail(p)))

\* json.load: one value, whitespace around it and nothing else
json_loads(t) ==
    WithValue(ReadValue(t, SkipWs(t, 1)), LAMBDA val :
        IF val.ok /\ SkipWs(t, val.next) > Len(t)
        THEN [ok |-> TRUE, value |-> val.value]
        ELSE [ok |-> FALSE, value |-> <<>>])

\* an object whose values are all strings: a translation memory
IsStringObject(val) ==
    /\ val.type = "object"
    /\ \A k \in DOMAIN val.v : val.v[k].type = "string"

\* the file holding the text, as json.load reads it in text mode: the mapping of an
\* object of strings ("json"), another JSON value ("other", returned by
\* load_memory as it is), or no JSON ("corrupt", json.load raises)
FileOf(text) ==
    WithValue(read(text), LAMBDA content :
    WithValue(json_loads(content), LAMBDA loaded :
        IF ~loaded.ok THEN CorruptStore
        ELSE IF IsStringObject(loaded.value)
        THEN [kind |-> "json",
              data |-> [k \in DOMAIN loaded.value.v |-> loaded.value.v[k].v]]
        ELSE [kind |-> "other", data |-> loaded.value]))

\* save_memory raises UnicodeEncodeError: a key or a value holds a lone
\* surrogate
save_fails(mem) ==
    \E k \in DOMAIN mem : ~Encodable(k) \/ ~Encodable(mem[k])

\* save_memory: json.dump of the whole mapping over the file, the keys in
\* the order ks of the dict; the file is what is left of the writes, the
\* text of the mapping or, when a write raises, the text before that write
save_memory(mem, ks) == FileOf(Written(json_chunks(mem, ks)))

\* load_memory: json.load of the file; only FileNotFoundError is caught
load_fails(st) == st.kind = "corrupt"
load_memory(st) == IF st.kind = "absent" THEN EmptyMap ELSE st.data

\* ------------------------------------------------------------------------
\* translate_text
\* ------------------------------------------------------------------------
PlaceholderPrefix ==
    <<"[", "T", "r", "a", "n", "s", "l", "a", "t", "i", "o", "n", " ",
      "E", "r", "r", "o", "r", ":", " ">>

\* variant: a placeholder that does not carry the text
PlaceholderNoText(text) == PlaceholderPrefix \o <<"]">>

\* f"[Translation Error: {text}]"
Placeholder(text) == PlaceholderPrefix \o text \o <<"]">>

\* variant: a successful result is returned but not kept
translate_textNoStore(text, mem, outcome) ==
    IF strip(text) = <<>>
    THEN [result |-> text, memory |-> mem, called |-> FALSE]
    ELSE IF text \in DOMAIN mem
    THEN [result |-> mem[text], memory |-> mem, called |-> FALSE]
    ELSE IF outcome.ok
    THEN [result |-> outcome.text, memory |-> mem, called |-> TRUE]
    ELSE [result |-> PlaceholderPrefix \o text \o <<"]">>,
          memory |-> mem, called |-> TRUE]

\* variant: the placeholder of a failed call is kept in the memory
translate_textPoison(text, mem, outcome) ==
    IF strip(text) = <<>>
    THEN [result |-> text, memory |-> mem, called |-> FALSE]
    ELSE IF text \in DOMAIN mem
    THEN [result |-> mem[text], memory |-> mem, called |-> FALSE]
    ELSE IF outcome.ok
    THEN [result |-> outcome.text,
          memory |-> Put(mem, text, outcome.text),
          called |-> TRUE]
    ELSE [result |-> PlaceholderPrefix \o text \o <<"]">>,
          memory |-> Put(mem, text, PlaceholderPrefix \o text \o <<"]">>),
          called |-> TRUE]

\* variant: the provider is asked before the memory is looked at
translate_textProviderFirst(text, mem, outcome) ==
    IF strip(text) = <<>>
    THEN [result |-> text, memory |-> mem, called |-> FALSE]
    ELSE IF outcome.ok
    THEN [result |-> outcome.text,
          memory |-> Put(mem, text, outcome.text),
          called |-> TRUE]
    ELSE IF text \in DOMAIN mem
    THEN [result |-> mem[text], memory |-> mem, called |-> TRUE]
    ELSE [result |-> PlaceholderPrefix \o text \o <<"]">>,
          memory |-> mem, called |-> TRUE]

\* variant: a blank text is looked up and sent to the provider like any other
translate_textNoBlankCheck(text, mem, outcome) ==
    IF text \in DOMAIN mem
    THEN [result |-> mem[text], memory |-> mem, called |-> FALSE]
    ELSE IF outcome.ok
    THEN [result |-> outcome.text,
          memory |-> Put(mem, text, outcome.text),
          called |-> TRUE]
    ELSE [result |-> PlaceholderPrefix \o text \o <<"]">>,
          memory |-> mem, called |-> TRUE]

\* outcome is what the provider does if it is called: [ok |-> TRUE, text |-> r]
\* or [ok |-> FALSE] (any exception).  The result says what is returned,
\* the memory afterwards, and whether the provider was called.
translate_text(text, mem, outcome) ==
    IF strip(text) = <<>>
    THEN [result |-> text, memory |-> mem, called |-> FALSE]
    ELSE IF text \in DOMAIN mem
    THEN [result |-> mem[text], memory |-> mem, called |-> FALSE]
    ELSE IF outcome.ok
    THEN [result |-> outcome.text,
          memory |-> Put(mem, text, outcome.text),
          called |-> TRUE]
    ELSE [result |-> Placeholder(text), memory |-> mem, called |-> TRUE]

\* ------------------------------------------------------------------------
\* interactive_review: the effect of one choice
\* ------------------------------------------------------------------------
Max(a, b) == IF a >= b THEN a ELSE b

\* variant: no floor at 0
GoBackNoFloor(cur) == cur - 1

\* choice '4'
GoBack(cur) == Max(0, cur - 1)

\* variant: an empty input is applied too
EditEntryAlways(subs, cur, new) ==
    [subs EXCEPT ![cur + 1].translated_text = new]

\* variant: a key already stored is not overwritten
EditMemoryNoOverwrite(mem, subs, cur, new) ==
    IF new # <<>> /\ subs[cur + 1].original_text \notin DOMAIN mem
    THEN Put(mem, subs[cur + 1].original_text, new)
    ELSE mem

\* choice '2' with the stripped input new
EditEntry(subs, cur, new) ==
    IF new # <<>>
    THEN [subs EXCEPT ![cur + 1].translated_text = new]
    ELSE subs

EditMemory(mem, subs, cur, new) ==
    IF new # <<>>
    THEN Put(mem, subs[cur + 1].original_text, new)
    ELSE mem

\* ------------------------------------------------------------------------
\* show_statistics
\* ------------------------------------------------------------------------
\* Line 155 closes one ')' too many after the list comprehension: the
\* statement is not Python, no count of lines is ever computed and the
\* operation ends by an error for every list.  (With that parenthesis
\* taken out, line 161 divides by the count of non-structural entries,
\* which is zero for the empty list main() passes.)
statistics_fails(subs) == TRUE

\* ------------------------------------------------------------------------
\* export_srt
\* ------------------------------------------------------------------------
\* str(n) of a non-negative int: decimal digits, no leading zeros
RECURSIVE StrNat(_)
StrNat(n) ==
    IF n < 10 THEN <<DigitChars[n + 1]>>
    ELSE StrNat(n \div 10) \o <<DigitChars[(n % 10) + 1]>>

\* f"{subtitle['id']}": the id is the int made by parse_srt
str(n) == IF n < 0 THEN <<"-">> \o StrNat(0 - n) ELSE StrNat(n)

\* variant: an entry with no translation is written with its source text
WritesOfSourceFallback(subtitle) ==
    << str(subtitle.id) \o <<NL>>,
       subtitle.timing \o <<NL>>,
       (IF subtitle.translated_text = <<>>
        THEN subtitle.original_text
        ELSE subtitle.translated_text) \o <<NL, NL>> >>

\* the three writes of one iteration of the loop
WritesOf(subtitle) ==
    << str(subtitle.id) \o <<NL>>,
       subtitle.timing \o <<NL>>,
       subtitle.translated_text \o <<NL, NL>> >>

\* the writes of the whole loop
RECURSIVE export_writes(_)
export_writes(subs) ==
    IF subs = <<>> THEN <<>>
    ELSE WritesOf(Head(subs)) \o export_writes(Tail(subs))

\* export_srt raises UnicodeEncodeError: a text to write holds a lone
\* surrogate
export_fails(subs) == write_fails(export_writes(subs))

\* the text of the file once export_srt is over, or has raised
export_srt(subs) == Written(export_writes(subs))

\* ------------------------------------------------------------------------
\* Inputs
\* ------------------------------------------------------------------------
TextHi == <<"H", "i">>
TextYo == <<"Y", "o">>
TextNumber == <<"4", "2">>
TextArrow == <<"a", "-", "-", ">", "b">>
Timing == <<"0", "-", "-", ">", "1">>

Block(idline, timing, text) == idline \o <<NL>> \o timing \o <<NL>> \o text

BlockPool ==
    { Block(<<"1">>, Timing, TextHi),
      Block(<<"2">>, Timing, TextYo),
      Block(<<"3">>, Timing, TextNumber),
      Block(<<"4">>, Timing, TextArrow),
      <<"5">> \o <<NL>> \o Timing,
      Block(<<"x">>, Timing, TextHi) }

BlockSeqs == UNION {[1..n -> BlockPool] : n \in 0..MaxBlocks}

\* documents: blocks separated by a blank line, ended by a newline
Documents == {join(<<NL, NL>>, bs) \o <<NL>> : bs \in BlockSeqs}

\* what parse_srt makes of each document
Parsed ==
    {[fails |-> parse_fails(d),
      subtitles |-> IF parse_fails(d) THEN <<>> ELSE parse_srt(d)] : d \in Documents}

\* what the provider may return for a text
ProviderResults == {<<"M">>, <<"N">>}
Outcomes == {[ok |-> TRUE, text |-> r] : r \in ProviderResults}
                \cup {[ok |-> FALSE, text |-> <<>>]}

\* what the store may hold when the process starts: no file, a file that is
\* no JSON, a file written by an earlier run (JSON of another shape, which
\* load_memory returns as it is, is left out of the runs of main()).  No
\* text of the runs of main() holds a lone surrogate: the documents, the
\* results of the provider, the lines typed and the stores are texts that
\* UTF-8 encodes.
InitialStores ==
    {AbsentStore, CorruptStore, save_memory(Put(EmptyMap, TextHi, <<"N">>), <<TextHi>>)}

\* lines the operator may type
MenuInputs == {<<"1">>, <<"2", " ">>, <<"3">>, <<"4">>, <<"7">>}
YesNoInputs == {<<"Y", " ">>, <<"y">>, <<"n">>}
ReviewInputs == {<<"1">>, <<" ", "2">>, <<"3">>, <<"4">>, <<"5">>, <<"9">>}
EditInputs == {<<" ">>, <<"E", " ">>}

\* the memories main() can hold with these inputs: the keys are the texts of
\* the translatable entries and the keys of the initial stores, the values
\* the results of the provider, the texts typed for an edit and the values
\* of the initial stores
MemoryKeys ==
    {text \in UNION {{p.subtitles[k].original_text : k \in 1..Len(p.subtitles)} :
                        p \in Parsed} : ~IsStructural(text)}
        \cup UNION {DOMAIN st.data : st \in InitialStores}
MemoryValues ==
    ProviderResults
        \cup {strip(rt) : rt \in EditInputs}
        \cup UNION {{st.data[k] : k \in DOMAIN st.data} : st \in InitialStores}
Memories == UNION {[D -> MemoryValues] : D \in SUBSET MemoryKeys}

\* save_memory on each of these memories: the file it leaves, for each order
\* the keys of the dict can be in
SavedFiles ==
    UNION {{[memory |-> mem, file |-> save_memory(mem, ks)] :
               ks \in KeyOrders(DOMAIN mem)} : mem \in Memories}

\* the files save_memory can leave for the memory mem: read from the table
\* for a memory of the table, computed for any other
save_results(mem) ==
    IF \E w \in SavedFiles : w.memory = mem
    THEN {w.file : w \in {x \in SavedFiles : x.memory = mem}}
    ELSE {save_memory(mem, ks) : ks \in KeyOrders(DOMAIN mem)}

\* ------------------------------------------------------------------------
\* State
\* ------------------------------------------------------------------------
VARIABLES
    pc,                  \* where main() is: "start", "menu", "ask_file",
                         \* "translating", "ask_review", "review_loop",
                         \* "review_input", "ask_output", "exited", "crashed"
    store,               \* the file translation_memory.json
    translation_memory,  \* self.translation_memory
    subtitles,           \* the list of the running workflow
    idx,                 \* loop index of auto_translate_all
    i,                   \* cursor of interactive_review
    provider_log,        \* provider calls of the running auto-translate pass
    failed,              \* texts for which the provider has failed so far
    saves,               \* save_memory calls of the running menu operation
    workflows,           \* translate workflows started so far
    exports,             \* export_srt calls of the running menu operation
    saved,               \* the mapping the store was last written from
    source,              \* the blocks (lists of lines) a document is made of
    srt_text,            \* the text of the document read by parse_srt
    exported             \* the text export_srt has written in the running
                         \* menu operation

vars == <<pc, store, translation_memory, subtitles, idx, i, provider_log,
          failed, saves, workflows, exports, saved, source, srt_text, exported>>

\* the document pipeline is checked on its own (DocSpec below), where the
\* document is fixed at the start; in main() the document is the file the
\* operator names at choice '1', an input of that step, and the exported
\* file is never read back
docvars == <<source, srt_text, exported>>

Init ==
    /\ pc = "start"
    /\ store \in InitialStores
    /\ translation_memory = EmptyMap
    /\ subtitles = <<>>
    /\ idx = 0
    /\ i = 0
    /\ provider_log = <<>>
    /\ failed = {}
    /\ saves = 0
    /\ workflows = 0
    /\ exports = 0
    /\ saved = load_memory(store)
    /\ source = <<>>
    /\ srt_text = <<>>
    /\ exported = <<>>

\* ------------------------------------------------------------------------
\* main(): construction and the menu
\* ------------------------------------------------------------------------
\* translator = SubtitleTranslator()
Startup ==
    /\ pc = "start"
    /\ IF load_fails(store)
       THEN /\ pc' = "crashed"
            /\ UNCHANGED translation_memory
       ELSE /\ pc' = "menu"
            /\ translation_memory' = load_memory(store)
    /\ UNCHANGED <<store, subtitles, idx, i, provider_log, failed, saves,
                   workflows, exports, saved, docvars>>

\* choice '1': main() asks for the path of the SRT file
MenuTranslate ==
    /\ pc = "menu"
    /\ \E raw \in MenuInputs : strip(raw) = <<"1">>
    /\ pc' = "ask_file"
    /\ saves' = 0
    /\ exports' = 0
    /\ exported' = <<>>
    /\ UNCHANGED <<store, translation_memory, subtitles, idx, i, provider_log,
                   failed, workflows, saved, source, srt_text>>

\* the file named exists: parse_srt, then auto_translate_all begins.  A
\* file that cannot be read as UTF-8 text (a directory, no permission, bytes
\* that are no UTF-8) ends main() by the error of line 34 or 35.
AskFile ==
    /\ pc = "ask_file"
    /\ workflows < MaxWorkflows
    /\ \E readable \in BOOLEAN :
          IF readable
          THEN \E p \in Parsed :
                  IF p.fails
                  THEN /\ pc' = "crashed"
                       /\ UNCHANGED subtitles
                  ELSE /\ pc' = "translating"
                       /\ subtitles' = p.subtitles
          ELSE /\ pc' = "crashed"
               /\ UNCHANGED subtitles
    /\ idx' = 0
    /\ provider_log' = <<>>
    /\ workflows' = workflows + 1
    /\ UNCHANGED <<store, translation_memory, i, failed, saves, exports, saved,
                   docvars>>

\* os.path.exists(file_path) is false: back to the menu
MenuFileNotFound ==
    /\ pc = "ask_file"
    /\ pc' = "menu"
    /\ UNCHANGED <<store, translation_memory, subtitles, idx, i, provider_log,
                   failed, saves, workflows, exports, saved, docvars>>

\* choice '2': show_statistics([])
MenuStatistics ==
    /\ pc = "menu"
    /\ \E raw \in MenuInputs : strip(raw) = <<"2">>
    /\ pc' = IF statistics_fails(<<>>) THEN "crashed" ELSE "menu"
    /\ saves' = 0
    /\ exports' = 0
    /\ exported' = <<>>
    /\ UNCHANGED <<store, translation_memory, subtitles, idx, i, provider_log,
                   failed, workflows, saved, source, srt_text>>

\* variant: a confirmed clear empties the mapping but does not save
ClearChoiceNoSave(confirm) ==
    /\ pc = "menu"
    /\ \E raw \in MenuInputs : strip(raw) = <<"3">>
    /\ IF lower(strip(confirm)) = <<"y">>
       THEN translation_memory' = EmptyMap
       ELSE UNCHANGED translation_memory
    /\ saves' = 0
    /\ exports' = 0
    /\ exported' = <<>>
    /\ UNCHANGED <<pc, store, saved, subtitles, idx, i, provider_log, failed,
                   workflows, source, srt_text>>

\* choice '3', with the answer to "Clear all translation memory? (y/n)"
ClearChoice(confirm) ==
    /\ pc = "menu"
    /\ \E raw \in MenuInputs : strip(raw) = <<"3">>
    /\ IF lower(strip(confirm)) = <<"y">>
       THEN /\ translation_memory' = EmptyMap
            /\ store' = save_memory(EmptyMap, <<>>)
            /\ saved' = EmptyMap
            /\ saves' = 1
       ELSE /\ saves' = 0
            /\ UNCHANGED <<translation_memory, store, saved>>
    /\ exports' = 0
    /\ exported' = <<>>
    /\ UNCHANGED <<pc, subtitles, idx, i, provider_log, failed, workflows,
                   source, srt_text>>

MenuClear == \E confirm \in YesNoInputs : ClearChoice(confirm)

\* choice '4'
MenuExit ==
    /\ pc = "menu"
    /\ \E raw \in MenuInputs : strip(raw) = <<"4">>
    /\ pc' = "exited"
    /\ saves' = 0
    /\ exports' = 0
    /\ exported' = <<>>
    /\ UNCHANGED <<store, translation_memory, subtitles, idx, i, provider_log,
                   failed, workflows, saved, source, srt_text>>

\* any other choice
MenuInvalid ==
    /\ pc = "menu"
    /\ \E raw \in MenuInputs : strip(raw) \notin {<<"1">>, <<"2">>, <<"3">>, <<"4">>}
    /\ saves' = 0
    /\ exports' = 0
    /\ exported' = <<>>
    /\ UNCHANGED <<pc, store, translation_memory, subtitles, idx, i,
                   provider_log, failed, workflows, saved, source, srt_text>>

\* ------------------------------------------------------------------------
\* auto_translate_all: one iteration of the for loop
\* ------------------------------------------------------------------------
TranslateEntry ==
    /\ pc = "translating"
    /\ idx < Len(subtitles)
    /\ LET text == subtitles[idx + 1].original_text
       IN  IF MatchDigits(strip(text)) \/ Contains(text, Arrow)
           THEN UNCHANGED <<subtitles, translation_memory, provider_log, failed>>
           ELSE \E outcome \in Outcomes :
                   LET r == translate_text(text, translation_memory, outcome)
                   IN  /\ subtitles' =
                              [subtitles EXCEPT ![idx + 1].translated_text = r.result]
                       /\ translation_memory' = r.memory
                       /\ provider_log' =
                              IF r.called
                              THEN Append(provider_log,
                                          [idx |-> idx, text |-> text, ok |-> outcome.ok])
                              ELSE provider_log
                       /\ failed' =
                              IF r.called /\ ~outcome.ok
                              THEN failed \cup {text}
                              ELSE failed
    /\ idx' = idx + 1
    /\ UNCHANGED <<pc, store, i, saves, workflows, exports, saved, docvars>>

\* the loop is exhausted; main() asks whether to review
TranslateDone ==
    /\ pc = "translating"
    /\ idx >= Len(subtitles)
    /\ pc' = "ask_review"
    /\ UNCHANGED <<store, translation_memory, subtitles, idx, i, provider_log,
                   failed, saves, workflows, exports, saved, docvars>>

\* "Start interactive review? (y/n)"
AskReview ==
    /\ pc = "ask_review"
    /\ \E raw \in YesNoInputs :
          IF lower(strip(raw)) = <<"y">>
          THEN /\ pc' = "review_loop"
               /\ i' = 0
          ELSE /\ pc' = "ask_output"
               /\ UNCHANGED i
    /\ provider_log' = <<>>
    /\ UNCHANGED <<store, translation_memory, subtitles, idx, failed, saves,
                   workflows, exports, saved, docvars>>

\* ------------------------------------------------------------------------
\* interactive_review
\* ------------------------------------------------------------------------
\* variant: the end of the list leaves the session without saving
ReviewLoopNoSave ==
    /\ pc = "review_loop"
    /\ IF i < Len(subtitles)
       THEN /\ IF IsStructural(subtitles[i + 1].original_text)
               THEN /\ i' = i + 1
                    /\ UNCHANGED pc
               ELSE /\ pc' = "review_input"
                    /\ UNCHANGED i
       ELSE /\ pc' = "ask_output"
            /\ UNCHANGED i
    /\ UNCHANGED <<store, saves, translation_memory, subtitles, idx,
                   provider_log, failed, workflows, exports, saved, docvars>>

\* the head of the while loop, up to the prompt; leaving the loop saves,
\* and a save that raises ends main()
ReviewLoop ==
    /\ pc = "review_loop"
    /\ IF i < Len(subtitles)
       THEN /\ IF IsStructural(subtitles[i + 1].original_text)
               THEN /\ i' = i + 1
                    /\ UNCHANGED pc
               ELSE /\ pc' = "review_input"
                    /\ UNCHANGED i
            /\ UNCHANGED <<store, saves, saved>>
       ELSE /\ store' \in save_results(translation_memory)
            /\ saves' = saves + 1
            /\ IF save_fails(translation_memory)
               THEN pc' = "crashed" /\ UNCHANGED saved
               ELSE pc' = "ask_output" /\ saved' = translation_memory
            /\ UNCHANGED i
    /\ UNCHANGED <<translation_memory, subtitles, idx, provider_log, failed,
                   workflows, exports, docvars>>

\* the operator's choice at the prompt, with the text typed for an edit
ReviewChoice(rawChoice, rawText) ==
    LET choice == strip(rawChoice)
        new == strip(rawText)
    IN  /\ pc = "review_input"
        /\ IF choice = <<"2">>
           THEN /\ subtitles' = EditEntry(subtitles, i, new)
                /\ translation_memory' =
                       EditMemory(translation_memory, subtitles, i, new)
           ELSE UNCHANGED <<subtitles, translation_memory>>
        /\ IF choice = <<"5">>
           THEN /\ store' \in save_results(translation_memory)
                /\ saves' = saves + 1
                /\ IF save_fails(translation_memory)
                   THEN pc' = "crashed" /\ UNCHANGED saved
                   ELSE pc' = "ask_output" /\ saved' = translation_memory
                /\ UNCHANGED i
           ELSE /\ i' = IF choice = <<"4">> THEN GoBack(i) ELSE i + 1
                /\ pc' = "review_loop"
                /\ UNCHANGED <<store, saves, saved>>
        /\ UNCHANGED <<idx, provider_log, failed, workflows, exports, docvars>>

\* the new translation is asked for after choice '2' only
ReviewInput ==
    \E rc \in ReviewInputs :
        IF strip(rc) = <<"2">>
        THEN \E rt \in EditInputs : ReviewChoice(rc, rt)
        ELSE ReviewChoice(rc, <<>>)

\* ------------------------------------------------------------------------
\* main(): export, save, back to the menu
\* ------------------------------------------------------------------------
\* variant: the workflow ends after the export, without saving
AskOutputNoSave ==
    /\ pc = "ask_output"
    /\ exports' = exports + 1
    /\ \E writable \in BOOLEAN :
          IF writable /\ ~export_fails(subtitles)
          THEN /\ exported' = export_srt(subtitles)
               /\ pc' = "menu"
               /\ subtitles' = <<>>
               /\ idx' = 0
               /\ i' = 0
          ELSE /\ exported' = IF writable THEN export_srt(subtitles) ELSE exported
               /\ pc' = "crashed"
               /\ UNCHANGED <<subtitles, idx, i>>
    /\ UNCHANGED <<store, saved, saves, translation_memory, provider_log,
                   failed, workflows, source, srt_text>>

\* the output path is read and export_srt is called.  When the path can be
\* opened for writing the file is written and save_memory follows; when it
\* cannot, open() raises at line 98, nothing is written and main() ends by
\* the error before the save_memory of line 209, as it does when a write of
\* export_srt raises.  A save_memory that raises ends main() too.
AskOutput ==
    /\ pc = "ask_output"
    /\ exports' = exports + 1
    /\ \E writable \in BOOLEAN :
          IF writable /\ ~export_fails(subtitles)
          THEN /\ exported' = export_srt(subtitles)
               /\ store' \in save_results(translation_memory)
               /\ saves' = saves + 1
               /\ IF save_fails(translation_memory)
                  THEN /\ pc' = "crashed"
                       /\ UNCHANGED <<saved, subtitles, idx, i>>
                  ELSE /\ pc' = "menu"
                       /\ saved' = translation_memory
                       /\ subtitles' = <<>>
                       /\ idx' = 0
                       /\ i' = 0
          ELSE /\ exported' = IF writable THEN export_srt(subtitles) ELSE exported
               /\ pc' = "crashed"
               /\ UNCHANGED <<store, saved, saves, subtitles, idx, i>>
    /\ UNCHANGED <<translation_memory, provider_log, failed, workflows,
                   source, srt_text>>

Next ==
    \/ Startup
    \/ MenuTranslate
    \/ AskFile
    \/ MenuFileNotFound
    \/ MenuStatistics
    \/ MenuClear
    \/ MenuExit
    \/ MenuInvalid
    \/ TranslateEntry
    \/ TranslateDone
    \/ AskReview
    \/ ReviewLoop
    \/ ReviewInput
    \/ AskOutput

Spec == Init /\ [][Next]_vars

\* The for loop of auto_translate_all runs on without waiting for the
\* operator, and a provider call returns or raises.
FairPass == Spec /\ WF_vars(TranslateEntry) /\ WF_vars(TranslateDone)

TypeOK ==
    /\ pc \in {"start", "menu", "ask_file", "translating", "ask_review",
               "review_loop", "review_input", "ask_output", "exited",
               "crashed"}
    /\ idx \in 0..Len(subtitles)
    /\ saves \in 0..2
    /\ workflows \in 0..MaxWorkflows
    /\ translation_memory \in Memories

\* ------------------------------------------------------------------------
\* The document pipeline: parse_srt, auto_translate_all, export_srt called
\* on their own, on documents made of blocks of lines
\* ------------------------------------------------------------------------
Timing2 == <<"1", "-", "-", ">", "2">>

\* blocks as lists of lines: descending, duplicate and zero-padded ids, an
\* id in Myanmar digits, a text of two lines, a purely numeric text, a
\* block of two lines whose first line is no integer, a block of three
\* lines whose first line is no integer
DocBlockPool ==
    { <<<<"2">>, Timing, TextHi>>,
      <<<<"1">>, Timing2, TextYo>>,
      <<<<CharOf(4163)>>, Timing2, TextYo>>,
      <<<<"0", "7">>, Timing, TextHi, TextYo>>,
      <<<<"2">>, Timing2, TextNumber>>,
      <<<<"s">>, Timing>>,
      <<<<"x">>, Timing, TextHi>> }

DocSources == UNION {[1..n -> DocBlockPool] : n \in 0..MaxBlocks}

\* how the lines of a file end: Unix, Windows
LineEnds == {<<NL>>, <<CR, NL>>}

\* the text of the file: lines ended by end, blocks separated by a blank
\* line
Render(src, end) ==
    join(end \o end, [k \in 1..Len(src) |-> join(end, src[k])]) \o end

DocInit ==
    /\ pc = "doc_read"
    /\ source \in DocSources
    /\ srt_text \in {Render(source, end) : end \in LineEnds}
    /\ exported = <<>>
    /\ store = AbsentStore
    /\ saved = EmptyMap
    /\ translation_memory = EmptyMap
    /\ subtitles = <<>>
    /\ idx = 0
    /\ i = 0
    /\ provider_log = <<>>
    /\ failed = {}
    /\ saves = 0
    /\ workflows = 0
    /\ exports = 0

\* parse_srt(file_path): the list of entries, or ValueError
DocParse ==
    /\ pc = "doc_read"
    /\ IF parse_fails(srt_text)
       THEN /\ pc' = "crashed"
            /\ UNCHANGED subtitles
       ELSE /\ pc' = "parsed"
            /\ subtitles' = parse_srt(srt_text)
    /\ UNCHANGED <<store, translation_memory, idx, i, provider_log, failed,
                   saves, workflows, exports, saved, docvars>>

\* the caller copies each entry's original_text into its translated_text
DocFill ==
    /\ pc = "parsed"
    /\ subtitles' = [k \in 1..Len(subtitles) |->
                        [subtitles[k] EXCEPT
                            !.translated_text = subtitles[k].original_text]]
    /\ pc' = "filled"
    /\ UNCHANGED <<store, translation_memory, idx, i, provider_log, failed,
                   saves, workflows, exports, saved, docvars>>

\* auto_translate_all(subtitles) starts its loop
DocPass ==
    /\ pc = "parsed"
    /\ pc' = "translating"
    /\ idx' = 0
    /\ UNCHANGED <<store, translation_memory, subtitles, i, provider_log,
                   failed, saves, workflows, exports, saved, docvars>>

\* export_srt(subtitles, output_path)
DocExport ==
    /\ pc \in {"parsed", "filled", "ask_review"}
    /\ exported' = export_srt(subtitles)
    /\ exports' = exports + 1
    /\ pc' = IF export_fails(subtitles) THEN "crashed" ELSE "exported"
    /\ UNCHANGED <<store, translation_memory, subtitles, idx, i, provider_log,
                   failed, saves, workflows, saved, source, srt_text>>

DocNext ==
    \/ DocParse
    \/ DocFill
    \/ DocPass
    \/ TranslateEntry
    \/ TranslateDone
    \/ DocExport

DocSpec == DocInit /\ [][DocNext]_vars

\* ------------------------------------------------------------------------
\* The memory store: assignments to the mapping, save_memory and
\* load_memory called on their own, and the clear of the menu; pc names the
\* operation that ran last
\* ------------------------------------------------------------------------
StoreKeys == {TextHi, <<"a", Quote, "b">>, <<Backslash, "n">>}
\* the last value holds a lone surrogate, as a text does that json.load
\* read from the escape \udc00
StoreValues == {<<"M">>, <<NL, Quote>>, <<Backslash, CR>>, <<"x", CharOf(56320)>>}
StoreMems == UNION {[D -> StoreValues] : D \in SUBSET StoreKeys}

\* the program at its menu: the store holds the mapping, as an earlier save
\* left it, or does not exist yet while the mapping is empty
StoreInit ==
    /\ pc = "menu"
    /\ translation_memory \in {mem \in StoreMems : ~save_fails(mem)}
    /\ store \in IF translation_memory = EmptyMap
                 THEN {AbsentStore, save_memory(EmptyMap, <<>>)}
                 ELSE {save_memory(translation_memory, ks) :
                          ks \in KeyOrders(DOMAIN translation_memory)}
    /\ saved = translation_memory
    /\ subtitles = <<>>
    /\ idx = 0
    /\ i = 0
    /\ provider_log = <<>>
    /\ failed = {}
    /\ saves = 0
    /\ workflows = 0
    /\ exports = 0
    /\ source = <<>>
    /\ srt_text = <<>>
    /\ exported = <<>>

StoreReady == pc \in {"menu", "put", "cleared", "saved", "loaded"}

\* self.translation_memory[text] = value
StorePut ==
    /\ StoreReady
    /\ \E k \in StoreKeys, v \in StoreValues :
          translation_memory' = Put(translation_memory, k, v)
    /\ pc' = "put"
    /\ UNCHANGED <<store, saved, subtitles, idx, i, provider_log, failed,
                   saves, workflows, exports, docvars>>

\* the clear of lines 218-219: self.translation_memory = {} and, in the same
\* step, save_memory() of the empty mapping
StoreClear ==
    /\ StoreReady
    /\ translation_memory' = EmptyMap
    /\ store' = save_memory(EmptyMap, <<>>)
    /\ saved' = EmptyMap
    /\ pc' = "cleared"
    /\ UNCHANGED <<subtitles, idx, i, provider_log, failed, saves, workflows,
                   exports, docvars>>

\* save_memory()
StoreSave ==
    /\ StoreReady
    /\ \E ks \in KeyOrders(DOMAIN translation_memory) :
          store' = save_memory(translation_memory, ks)
    /\ IF save_fails(translation_memory)
       THEN pc' = "crashed" /\ UNCHANGED saved
       ELSE pc' = "saved" /\ saved' = translation_memory
    /\ UNCHANGED <<translation_memory, subtitles, idx, i, provider_log,
                   failed, saves, workflows, exports, docvars>>

\* self.translation_memory = self.load_memory()
StoreLoad ==
    /\ StoreReady
    /\ IF load_fails(store)
       THEN /\ pc' = "crashed"
            /\ UNCHANGED translation_memory
       ELSE /\ pc' = "loaded"
            /\ translation_memory' = load_memory(store)
    /\ UNCHANGED <<store, saved, subtitles, idx, i, provider_log, failed,
                   saves, workflows, exports, docvars>>

StoreNext ==
    \/ StorePut
    \/ StoreClear
    \/ StoreSave
    \/ StoreLoad
    \/ MenuClear

StoreSpec == StoreInit /\ [][StoreNext]_vars

\* ------------------------------------------------------------------------
\* auto_translate_all called on its own, on lists that hold blank texts (the
\* empty text, a space, a vertical tab), numbers in ASCII and in Myanmar
\* digits, and entries translated before
\* ------------------------------------------------------------------------
Entry(text, translated) ==
    [id |-> 1, timing |-> Timing, original_text |-> text,
     translated_text |-> translated, needs_review |-> FALSE]

PassEntries ==
    { Entry(<<>>, <<>>),
      Entry(<<" ">>, <<>>),
      Entry(<<CharOf(11)>>, <<>>),
      Entry(<<CharOf(4164), CharOf(4162)>>, <<>>),
      Entry(TextNumber, <<>>),
      Entry(TextNumber, <<"P">>),
      Entry(<<" ", "7">>, <<>>),
      Entry(TextArrow, <<>>),
      Entry(TextHi, <<>>) }

PassLists == UNION {[1..n -> PassEntries] : n \in 0..MaxBlocks}

PassMems ==
    { EmptyMap,
      Put(EmptyMap, TextHi, <<"N">>),
      Put(EmptyMap, <<" ">>, <<"N">>) }

PassInit ==
    /\ pc = "translating"
    /\ subtitles \in PassLists
    /\ translation_memory \in PassMems
    /\ idx = 0
    /\ i = 0
    /\ store = AbsentStore
    /\ saved = EmptyMap
    /\ provider_log = <<>>
    /\ failed = {}
    /\ saves = 0
    /\ workflows = 0
    /\ exports = 0
    /\ source = <<>>
    /\ srt_text = <<>>
    /\ exported = <<>>

PassNext ==
    \/ TranslateEntry
    \/ TranslateDone

PassSpec == PassInit /\ [][PassNext]_vars

\* ------------------------------------------------------------------------
\* Vocabulary of the properties
\* ------------------------------------------------------------------------
\* a structural line: trimmed text purely numeric, or text with the arrow
PurelyNumeric(text) ==
    LET t == strip(text)
    IN  Len(t) > 0 /\ \A k \in 1..Len(t) : t[k] \in Digits

HasArrow(text) ==
    \E k \in 1..(Len(text) - 2) :
        text[k] = "-" /\ text[k + 1] = "-" /\ text[k + 2] = ">"

StructuralLine(text) == PurelyNumeric(text) \/ HasArrow(text)

Translatable(text) == ~StructuralLine(text) /\ strip(text) # <<>>

InPass == pc \in {"translating", "ask_review"}
InReview == pc \in {"review_loop", "review_input"}

\* the operator chose c (after trimming) at the review prompt
Chose(c) ==
    /\ pc = "review_input"
    /\ \E rc \in ReviewInputs, rt \in EditInputs :
          strip(rc) = c /\ ReviewChoice(rc, rt)

\* the operator chose Edit and typed text that trims to new
ChoseEdit(new) ==
    /\ pc = "review_input"
    /\ \E rc \in ReviewInputs, rt \in EditInputs :
          strip(rc) = <<"2">> /\ strip(rt) = new /\ ReviewChoice(rc, rt)

\* a provider call was made in this step
Called == Len(provider_log') = Len(provider_log) + 1
LastCall == provider_log[Len(provider_log)]
NewCall == provider_log'[Len(provider_log')]

\* provider calls of the pass made for the entry at 1-based position k
CallsAt(k) == {n \in 1..Len(provider_log) : provider_log[n].idx = k - 1}
CallsFor(text) == {n \in 1..Len(provider_log) : provider_log[n].text = text}
FailedAt(k) == \E n \in CallsAt(k) : ~provider_log[n].ok

\* ------------------------------------------------------------------------
\* C1  Review cursor bounds: the cursor i is never below 0 and never above
\*     the number of entries; Back at 0 leaves it at 0; Accept at the last
\*     position N-1 moves it to N, where the session ends with i = N.
\* ------------------------------------------------------------------------
ReviewCursorBounds ==
    /\ [](i >= 0 /\ i <= Len(subtitles))
    /\ [][Chose(<<"4">>) /\ i = 0 => i' = 0]_vars
    /\ [][Chose(<<"1">>) /\ i = Len(subtitles) - 1
              => i' = Len(subtitles) /\ pc' = "review_loop"]_vars
    /\ [][pc = "review_loop" /\ i = Len(subtitles)
              => pc' = "ask_output" /\ i' = Len(subtitles')]_vars

\* a session that ran off the end of a list whose last entry is reviewable
ReviewRanToEnd ==
    /\ pc = "ask_output"
    /\ saves = 1
    /\ Len(subtitles) > 1
    /\ i = Len(subtitles)
    /\ ~StructuralLine(subtitles[Len(subtitles)].original_text)

\* ------------------------------------------------------------------------
\* C2  (as claimed) Cache idempotence for every provider outcome: of two
\*     entries of a pass with the same translatable text, the provider is
\*     called at most once for the text, the second entry is served from
\*     memory and both get the same translated_text.
\* ------------------------------------------------------------------------
CacheIdempotenceAnyOutcome ==
    InPass =>
        \A j \in 1..idx, k \in 1..idx :
            (/\ j < k
             /\ subtitles[j].original_text = subtitles[k].original_text
             /\ Translatable(subtitles[j].original_text))
            => /\ Cardinality(CallsFor(subtitles[j].original_text)) <= 1
               /\ CallsAt(k) = {}
               /\ subtitles[k].translated_text = subtitles[j].translated_text

\* ------------------------------------------------------------------------
\* C2  (amended) Cache idempotence when the provider did not fail: of two
\*     entries of a pass with the same translatable text, if the provider
\*     did not fail for the first, the second is served from memory without
\*     a provider call and gets the same translated_text; the provider
\*     succeeds at most once per text, and is called again for a text only
\*     after it failed for it.
\* ------------------------------------------------------------------------
CacheIdempotence ==
    InPass =>
        /\ \A j \in 1..idx, k \in 1..idx :
              (/\ j < k
               /\ subtitles[j].original_text = subtitles[k].original_text
               /\ Translatable(subtitles[j].original_text)
               /\ ~FailedAt(j))
              => /\ CallsAt(k) = {}
                 /\ subtitles[k].translated_text = subtitles[j].translated_text
        /\ \A m \in 1..Len(provider_log), n \in 1..Len(provider_log) :
              (m < n /\ provider_log[m].text = provider_log[n].text)
              => ~provider_log[m].ok

\* the second of two equal texts was served from memory after one successful call
SecondServedFromMemory ==
    /\ InPass
    /\ \E j \in 1..idx, k \in 1..idx :
          /\ j < k
          /\ subtitles[j].original_text = subtitles[k].original_text
          /\ \E n \in CallsAt(j) : provider_log[n].ok
          /\ CallsAt(k) = {}
          /\ subtitles[k].translated_text = subtitles[j].translated_text
          /\ subtitles[k].translated_text \in ProviderResults

\* ------------------------------------------------------------------------
\* C3  Placeholder isolation: a failed provider call for T leaves the
\*     memory as it was, without T as a key; the placeholder is returned
\*     only by a call that has just failed, and a later translation of T
\*     (T still not stored) calls the provider again.
\* ------------------------------------------------------------------------
PlaceholderIsolation ==
    /\ [][Called /\ ~NewCall.ok
              => /\ translation_memory' = translation_memory
                 /\ NewCall.text \notin DOMAIN translation_memory'
                 /\ NewCall.text \in failed']_vars
    /\ [][(/\ pc = "translating"
           /\ idx < Len(subtitles)
           /\ subtitles[idx + 1].original_text \in failed
           /\ subtitles[idx + 1].original_text \notin DOMAIN translation_memory)
              => /\ Called
                 /\ NewCall.text = subtitles[idx + 1].original_text
                 /\ NewCall.idx = idx
                 /\ (NewCall.ok =>
                        subtitles'[idx + 1].translated_text \in ProviderResults)]_vars

\* a text that failed in an earlier pass was sent to the provider again
RetriedInLaterPass ==
    /\ InPass
    /\ provider_log # <<>>
    /\ LastCall.ok
    /\ LastCall.text \in failed
    /\ \A n \in CallsFor(LastCall.text) : provider_log[n].ok
    /\ workflows = 2

\* ------------------------------------------------------------------------
\* C4  A review session saves exactly once, when it ends: no save while
\*     the loop runs, and the step that leaves the loop (end of list or
\*     Finish) writes the memory, all edits included, to the store.
\* ------------------------------------------------------------------------
ReviewSavesOnceAtEnd ==
    /\ [](InReview => saves = 0)
    /\ [][InReview /\ InReview' => store' = store]_vars
    /\ [][InReview /\ ~InReview'
              => /\ pc' = "ask_output"
                 /\ saves' = 1
                 /\ translation_memory' = translation_memory
                 /\ store' = [kind |-> "json", data |-> translation_memory]]_vars
    /\ [](pc = "ask_output" => saves \in {0, 1})

\* Finish was chosen after an edit, and the store holds the edit
FinishedAfterEdit ==
    /\ pc = "ask_output"
    /\ saves = 1
    /\ i < Len(subtitles)
    /\ \E k \in 1..Len(subtitles) :
          /\ subtitles[k].translated_text = <<"E">>
          /\ subtitles[k].original_text \in DOMAIN store.data
          /\ store.data[subtitles[k].original_text] = <<"E">>

\* ------------------------------------------------------------------------
\* C5  Back moves to the previous reviewable entry: when Back is chosen at
\*     the k-th reviewable (non-structural) entry, the entry presented next
\*     is the max(0, k-1)-th reviewable entry, whatever structural entries
\*     lie in between.
\* ------------------------------------------------------------------------
\* how many reviewable entries lie before the 0-based position cur
ReviewRank(subs, cur) ==
    Cardinality({k \in 1..cur : ~StructuralLine(subs[k].original_text)})

\* the position the loop presents when it continues at cur (Len if none)
RECURSIVE NextPresented(_, _)
NextPresented(subs, cur) ==
    IF cur < Len(subs) /\ StructuralLine(subs[cur + 1].original_text)
    THEN NextPresented(subs, cur + 1)
    ELSE cur

BackGoesToPreviousReviewable ==
    [][Chose(<<"4">>)
          => LET nxt == NextPresented(subtitles', i')
                 k == ReviewRank(subtitles, i)
             IN  /\ nxt < Len(subtitles')
                 /\ ReviewRank(subtitles', nxt) = IF k = 0 THEN 0 ELSE k - 1]_vars

\* ------------------------------------------------------------------------
\* C6  Only reviewable entries are presented: whenever the session awaits
\*     an input, the entry under the cursor is not a structural line, and
\*     no step of the session changes a structural entry.
\* ------------------------------------------------------------------------
PresentedAreReviewable ==
    /\ [](pc = "review_input"
             => /\ i < Len(subtitles)
                /\ ~StructuralLine(subtitles[i + 1].original_text))
    /\ [][InReview
             => \A k \in 1..Len(subtitles) :
                    StructuralLine(subtitles[k].original_text)
                    => /\ k <= Len(subtitles')
                       /\ subtitles'[k] = subtitles[k]]_vars

\* an entry is presented after the cursor passed a numeric and an arrow entry
PresentedPastStructural ==
    /\ pc = "review_input"
    /\ \E k \in 1..i : PurelyNumeric(subtitles[k].original_text)
    /\ \E k \in 1..i : HasArrow(subtitles[k].original_text)

\* ------------------------------------------------------------------------
\* C7  Edit with non-empty text: the presented entry gets the text as its
\*     translated_text, the memory gets it under the entry's source text
\*     (overwriting), nothing else in the list or the memory changes, and
\*     the cursor advances by one.
\* ------------------------------------------------------------------------
EditSetsEntryAndMemory ==
    [][\A new \in {strip(rt) : rt \in EditInputs} \ {<<>>} :
          ChoseEdit(new)
          => LET key == subtitles[i + 1].original_text
             IN  /\ Len(subtitles') = Len(subtitles)
                 /\ subtitles'[i + 1].translated_text = new
                 /\ subtitles'[i + 1].original_text = key
                 /\ subtitles'[i + 1].id = subtitles[i + 1].id
                 /\ subtitles'[i + 1].timing = subtitles[i + 1].timing
                 /\ \A k \in 1..Len(subtitles) :
                        k # i + 1 => subtitles'[k] = subtitles[k]
                 /\ DOMAIN translation_memory' =
                        (DOMAIN translation_memory) \cup {key}
                 /\ translation_memory'[key] = new
                 /\ \A k \in (DOMAIN translation_memory) \ {key} :
                        translation_memory'[k] = translation_memory[k]
                 /\ i' = i + 1]_vars

\* an edit replaced a stored translation; the twin entry and the other key
\* kept theirs
EditedOverStoredValue ==
    /\ pc = "review_loop"
    /\ i >= 1
    /\ subtitles[i].translated_text = <<"E">>
    /\ subtitles[i].original_text \in DOMAIN translation_memory
    /\ translation_memory[subtitles[i].original_text] = <<"E">>
    /\ \E j \in 1..Len(subtitles) :
          /\ j # i
          /\ subtitles[j].original_text = subtitles[i].original_text
          /\ subtitles[j].translated_text \in ProviderResults
    /\ \E key \in DOMAIN translation_memory :
          /\ key # subtitles[i].original_text
          /\ translation_memory[key] \in ProviderResults

\* ------------------------------------------------------------------------
\* C8  Accept, Skip, Back and an Edit with empty text change neither any
\*     entry nor the memory (nor the store): Accept, Skip and the empty
\*     Edit add one to the cursor, Back sets it to max(0, i-1).
\* ------------------------------------------------------------------------
OtherChoicesMoveOnlyCursor ==
    /\ [][(Chose(<<"1">>) \/ Chose(<<"3">>) \/ ChoseEdit(<<>>))
             => /\ subtitles' = subtitles
                /\ translation_memory' = translation_memory
                /\ store' = store
                /\ i' = i + 1]_vars
    /\ [][Chose(<<"4">>)
             => /\ subtitles' = subtitles
                /\ translation_memory' = translation_memory
                /\ store' = store
                /\ i' = IF i = 0 THEN 0 ELSE i - 1]_vars

\* the cursor stands before an entry that was edited: Back was used
BackBehindEditedEntry ==
    /\ pc = "review_input"
    /\ \E k \in (i + 2)..Len(subtitles) : subtitles[k].translated_text = <<"E">>

\* ------------------------------------------------------------------------
\* C9  A provider failure does not abort the pass: every step of the pass
\*     handles exactly the next entry and goes on to the one after it,
\*     the pass ends, and only with every entry handled, a failed entry holds a
\*     marked text containing its original text, and every translatable
\*     entry handled so far, also after a failure, has its translated_text
\*     set.
\* ------------------------------------------------------------------------
ProviderFailureContained ==
    /\ [][(pc = "translating" /\ idx < Len(subtitles))
             => /\ pc' = "translating"
                /\ idx' = idx + 1
                /\ Len(subtitles') = Len(subtitles)
                /\ \A k \in 1..Len(subtitles) :
                      /\ subtitles'[k].original_text = subtitles[k].original_text
                      /\ k # idx + 1 => subtitles'[k] = subtitles[k]]_vars
    /\ (pc = "translating") ~> (pc = "ask_review")
    /\ [](pc = "ask_review" => idx = Len(subtitles))
    /\ [](InPass =>
            \A k \in 1..idx :
               /\ FailedAt(k)
                     => /\ Contains(subtitles[k].translated_text,
                                    subtitles[k].original_text)
                        /\ subtitles[k].translated_text # subtitles[k].original_text
                        /\ Head(subtitles[k].translated_text) = "["
               /\ Translatable(subtitles[k].original_text)
                     => subtitles[k].translated_text # <<>>)

\* the pass is over; an entry failed and a later entry was translated
TranslatedAfterFailure ==
    /\ pc = "ask_review"
    /\ \E j \in 1..idx, k \in 1..idx :
          /\ j < k
          /\ FailedAt(j)
          /\ \E n \in CallsAt(k) : provider_log[n].ok
          /\ subtitles[k].translated_text \in ProviderResults

\* ------------------------------------------------------------------------
\* C10 Memory before provider: an entry whose translatable text is a key of
\*     the memory gets the stored value, with no provider call and the
\*     memory unchanged; on a miss the provider is called, and on success
\*     the result is stored under the exact text and set as translated_text.
\* ------------------------------------------------------------------------
MemoryCheckedBeforeProvider ==
    /\ [][(/\ pc = "translating"
           /\ idx < Len(subtitles)
           /\ Translatable(subtitles[idx + 1].original_text)
           /\ subtitles[idx + 1].original_text \in DOMAIN translation_memory)
             => /\ subtitles'[idx + 1].translated_text =
                       translation_memory[subtitles[idx + 1].original_text]
                /\ provider_log' = provider_log
                /\ translation_memory' = translation_memory]_vars
    /\ [][(/\ pc = "translating"
           /\ idx < Len(subtitles)
           /\ Translatable(subtitles[idx + 1].original_text)
           /\ subtitles[idx + 1].original_text \notin DOMAIN translation_memory)
             => LET text == subtitles[idx + 1].original_text
                IN  /\ Called
                    /\ NewCall.text = text
                    /\ NewCall.ok
                          => /\ DOMAIN translation_memory' =
                                    (DOMAIN translation_memory) \cup {text}
                             /\ translation_memory'[text] \in ProviderResults
                             /\ subtitles'[idx + 1].translated_text =
                                    translation_memory'[text]
                             /\ \A k \in DOMAIN translation_memory :
                                    translation_memory'[k] = translation_memory[k]]_vars

\* an entry of a pass was served a translation typed in an earlier review
ServedFromEarlierEdit ==
    /\ pc = "translating"
    /\ idx >= 1
    /\ subtitles[idx].translated_text = <<"E">>
    /\ CallsAt(idx) = {}
    /\ translation_memory[subtitles[idx].original_text] = <<"E">>

\* ------------------------------------------------------------------------
\* Vocabulary of the document properties
\* ------------------------------------------------------------------------
\* a line of decimal digits
IntegerLine(line) == line # <<>> /\ \A k \in 1..Len(line) : line[k] \in Digits

\* every block is an integer id line, a timing line and text lines
WellFormed(src) ==
    \A b \in 1..Len(src) : Len(src[b]) >= 3 /\ IntegerLine(src[b][1])

\* trailing whitespace removed from every line and from the end of the text
NormalizeTrailing(doc) ==
    LET lines == split(doc, <<NL>>)
    IN  rstrip(join(<<NL>>, [k \in 1..Len(lines) |-> rstrip(lines[k])]))

\* every entry's translated_text is its source text
FilledFromSource ==
    \A k \in 1..Len(subtitles) :
        subtitles[k].translated_text = subtitles[k].original_text

\* the blocks of the source that make an entry
Kept(src) == SelectSeq(src, LAMBDA b : Len(b) >= 3)

\* ------------------------------------------------------------------------
\* C11 Round trip: the export of the parse of a well-formed document, every
\*     entry's translated_text set to its source text, is the document up
\*     to trailing whitespace, every id line and timing line as it was
\*     written.
\* ------------------------------------------------------------------------
RoundTrip ==
    (pc = "exported" /\ WellFormed(source) /\ FilledFromSource)
        => NormalizeTrailing(exported) = NormalizeTrailing(srt_text)

\* what identifies an entry, and the same for the block it was made from
EntryKey(e) == <<e.id, e.timing, e.original_text>>
BlockKey(b) == <<int_val(b[1]), b[2], join(<<NL>>, SubSeq(b, 3, Len(b)))>>

\* id and timing of each block of the exported text, read in file order
ExportedHeads ==
    IF strip(exported) = <<>> THEN <<>>
    ELSE [k \in 1..Len(Blocks(exported)) |->
             LET lines == BlockLines(Blocks(exported)[k])
             IN  <<int_val(lines[1]), lines[2]>>]

\* ------------------------------------------------------------------------
\* C12 Order preservation: the entries of a parsed document are, in source
\*     order, the entries of its blocks of three or more lines, whatever the
\*     ids (gaps, duplicates, descending); the auto-translate pass keeps the
\*     list in that order and the exported blocks follow the list order.
\* ------------------------------------------------------------------------
OrderPreserved ==
    /\ pc \in {"parsed", "filled", "translating", "ask_review", "exported"}
          => /\ Len(subtitles) = Len(Kept(source))
             /\ \A k \in 1..Len(subtitles) :
                    EntryKey(subtitles[k]) = BlockKey(Kept(source)[k])
    /\ pc = "exported"
          => /\ Len(ExportedHeads) = Len(subtitles)
             /\ \A k \in 1..Len(subtitles) :
                    ExportedHeads[k] = <<subtitles[k].id, subtitles[k].timing>>

\* a document with descending and duplicate ids went through the pass and
\* the export
ExportedOutOfOrderIds ==
    /\ pc = "exported"
    /\ Len(subtitles) = 3
    /\ subtitles[1].id > subtitles[2].id
    /\ subtitles[3].id = subtitles[1].id
    /\ subtitles[1].translated_text \in ProviderResults

\* ------------------------------------------------------------------------
\* C13 Parse error policy: a block of fewer than three lines makes no entry
\*     and the parse goes on with the blocks after it; a block of three or
\*     more lines whose first line is no integer fails the whole parse, and
\*     no entry is returned, not even for the well-formed blocks before it.
\* ------------------------------------------------------------------------
ParseErrorPolicy ==
    pc # "doc_read"
        => IF \E b \in 1..Len(source) :
                  Len(source[b]) >= 3 /\ ~IntegerLine(source[b][1])
           THEN pc = "crashed" /\ subtitles = <<>>
           ELSE /\ pc # "crashed"
                /\ Len(subtitles) =
                       Cardinality({b \in 1..Len(source) : Len(source[b]) >= 3})

\* the parse failed on the third block, after a well-formed block and a
\* block of two lines
FailedAfterGoodBlocks ==
    /\ pc = "crashed"
    /\ Len(source) = 3
    /\ Len(source[1]) >= 3 /\ IntegerLine(source[1][1])
    /\ Len(source[2]) < 3
    /\ Len(source[3]) >= 3 /\ ~IntegerLine(source[3][1])

\* ------------------------------------------------------------------------
\* C14 Start of the process: the memory becomes the persisted mapping when
\*     the store exists and parses, and the empty mapping when the store is
\*     absent or does not parse; in every case the start reaches the main
\*     menu.
\* ------------------------------------------------------------------------
StartupLoadsOrEmpty ==
    [][pc = "start"
          => /\ pc' = "menu"
             /\ translation_memory' =
                    IF store.kind = "json" THEN store.data ELSE EmptyMap]_vars

\* ------------------------------------------------------------------------
\* C15 Save then Load: every save leaves in the store exactly the mapping of
\*     the memory, nothing of the earlier content; a load gives the memory
\*     the mapping of the last save (so the empty mapping after clear and
\*     save); the confirmed clear of the menu leaves the memory and the
\*     store empty.
\* ------------------------------------------------------------------------
SaveLoadRoundTrip ==
    /\ [][StoreSave
             => /\ store'.kind = "json"
                /\ DOMAIN store'.data = DOMAIN translation_memory
                /\ \A k \in DOMAIN translation_memory :
                       store'.data[k] = translation_memory[k]]_vars
    /\ [][StoreLoad
             => /\ pc' = "loaded"
                /\ translation_memory' = saved]_vars
    /\ [][StoreClear
             => /\ translation_memory' = EmptyMap
                /\ store'.kind = "json"
                /\ store'.data = EmptyMap]_vars
    /\ [][(\E confirm \in YesNoInputs :
              lower(strip(confirm)) = <<"y">> /\ ClearChoice(confirm))
             => /\ translation_memory' = EmptyMap
                /\ store'.kind = "json"
                /\ store'.data = EmptyMap]_vars

\* the same for the memories save_memory can encode: the store then holds
\* the mapping, whatever order the keys are written in
SaveLoadRoundTripEncodable ==
    [][StoreSave /\ ~save_fails(translation_memory)
          => /\ pc' = "saved"
             /\ store'.kind = "json"
             /\ DOMAIN store'.data = DOMAIN translation_memory
             /\ \A k \in DOMAIN translation_memory :
                    store'.data[k] = translation_memory[k]]_vars

\* a save of a memory with a lone surrogate in a value ended the process and
\* left a store that load_memory raises on
SaveLeftCorruptStore ==
    /\ pc = "crashed"
    /\ save_fails(translation_memory)
    /\ store = CorruptStore

\* the steps at which the store is to be written
ReviewEnds == InReview /\ ~InReview'
ExportDone == pc = "ask_output" /\ pc' = "menu"
ConfirmedClear ==
    /\ pc = "menu"
    /\ \E confirm \in YesNoInputs :
          lower(strip(confirm)) = <<"y">> /\ ClearChoice(confirm)
Checkpoint == ReviewEnds \/ ExportDone \/ ConfirmedClear

\* ------------------------------------------------------------------------
\* C16 Persistence only at the checkpoints: a translation of the pass and an
\*     Edit of the review leave the store as it is and call no save; the
\*     store changes and save_memory is called at no step other than the
\*     end of a review session, the export of the workflow and a confirmed
\*     clear; each of these three steps calls save_memory once, after which
\*     the store holds the memory.
\* ------------------------------------------------------------------------
PersistenceAtCheckpoints ==
    /\ [][TranslateEntry => store' = store /\ saves' = saves]_vars
    /\ [][(\E rt \in EditInputs : ChoseEdit(strip(rt)))
             => store' = store /\ saves' = saves]_vars
    /\ [][~Checkpoint => store' = store /\ saves' \in {saves, 0}]_vars
    /\ [][Checkpoint
             => /\ store'.kind = "json"
                /\ store'.data = translation_memory'
                /\ saves' = IF ConfirmedClear THEN 1 ELSE saves + 1]_vars
    /\ [][ExportDone => exports' = exports + 1]_vars

\* a workflow with a review is over: the session end and the export each
\* saved, and the store holds the translations
SavedAfterReviewAndExport ==
    /\ pc = "menu"
    /\ saves = 2
    /\ exports = 1
    /\ store.kind = "json"
    /\ translation_memory # EmptyMap
    /\ store.data = translation_memory

\* ------------------------------------------------------------------------
\* C17 The pass leaves structural and blank entries to themselves: for an
\*     entry whose trimmed text is purely numeric, whose text holds '-->',
\*     or whose text is empty or whitespace, the step of the pass calls no
\*     provider and does not touch the memory; the structural entry is left
\*     as it was, the blank entry gets its source text as translated_text.
\* ------------------------------------------------------------------------
PassSkipsStructuralAndBlank ==
    [][(/\ pc = "translating"
        /\ idx < Len(subtitles)
        /\ \/ StructuralLine(subtitles[idx + 1].original_text)
           \/ strip(subtitles[idx + 1].original_text) = <<>>)
          => /\ provider_log' = provider_log
             /\ translation_memory' = translation_memory
             /\ idx' = idx + 1
             /\ \A k \in 1..Len(subtitles) : k # idx + 1 => subtitles'[k] = subtitles[k]
             /\ subtitles'[idx + 1] =
                    IF StructuralLine(subtitles[idx + 1].original_text)
                    THEN subtitles[idx + 1]
                    ELSE [subtitles[idx + 1] EXCEPT
                             !.translated_text = subtitles[idx + 1].original_text]]_vars

\* a pass is over in which a whitespace text that is a key of the memory
\* kept itself, a numeric text kept its earlier translation, and the
\* provider was called for the third entry only
BlankAndStructuralPassed ==
    /\ pc = "ask_review"
    /\ Len(subtitles) = 3
    /\ subtitles[1].original_text = <<" ">>
    /\ subtitles[1].translated_text = <<" ">>
    /\ <<" ">> \in DOMAIN translation_memory
    /\ subtitles[2].original_text = TextNumber
    /\ subtitles[2].translated_text = <<"P">>
    /\ subtitles[3].translated_text \in ProviderResults
    /\ Len(provider_log) = 1
    /\ provider_log[1].idx = 2

\* the block an entry is to be exported as, and where it starts in the file
ExportBlock(e) ==
    str(e.id) \o <<NL>> \o e.timing \o <<NL>> \o e.translated_text \o <<NL, NL>>

RECURSIVE ExportOffset(_, _)
ExportOffset(subs, k) ==
    IF k = 1 THEN 0
    ELSE ExportOffset(subs, k - 1) + Len(ExportBlock(subs[k - 1]))

\* ------------------------------------------------------------------------
\* C18 Export format: the exported text is one block per entry, in list
\*     order and nothing else; a block is the id line, the timing line, the
\*     translated_text and a blank line, also after the last block; an entry
\*     with an empty translated_text is written with an empty text, never
\*     with its source text.
\* ------------------------------------------------------------------------
ExportFormat ==
    pc = "exported"
        => /\ Len(exported) = ExportOffset(subtitles, Len(subtitles) + 1)
           /\ \A k \in 1..Len(subtitles) :
                  LET from == ExportOffset(subtitles, k)
                      block == SubSeq(exported, from + 1,
                                      ExportOffset(subtitles, k + 1))
                  IN  /\ block = ExportBlock(subtitles[k])
                      /\ subtitles[k].translated_text = <<>>
                            => block = str(subtitles[k].id) \o <<NL>>
                                           \o subtitles[k].timing \o <<NL, NL, NL>>

\* a list was exported after a pass that translated the first entry and
\* skipped the second, a numeric text, whose translated_text is empty
ExportedSkippedEntry ==
    /\ pc = "exported"
    /\ Len(subtitles) = 2
    /\ subtitles[1].translated_text \in ProviderResults
    /\ subtitles[2].original_text = TextNumber
    /\ subtitles[2].translated_text = <<>>
    /\ ~Contains(exported, TextNumber)

\* ------------------------------------------------------------------------
\* C19 The statistics operation completes: chosen at the main menu
\*     (option 2) it reports and the program is back at the main menu, also
\*     for a list that is empty or has no non-structural entry.
\* ------------------------------------------------------------------------
StatisticsCompletes ==
    [][MenuStatistics => pc' = "menu"]_vars

\* the mapping a start of the program would load from the store
Persisted == IF store.kind = "absent" THEN EmptyMap ELSE store.data

\* ------------------------------------------------------------------------
\* C20 At the main menu the store holds the memory: whenever the program
\*     awaits a menu choice (or has exited from the menu), the store is
\*     readable and the mapping it holds, the empty mapping if there is no
\*     store, is the translation memory.
\* ------------------------------------------------------------------------
MenuStoreEqualsMemory ==
    pc \in {"menu", "exited"}
        => /\ store.kind # "corrupt"
           /\ Persisted = translation_memory

\* back at the menu after a second workflow, run without review: one
\* export, one save, and the store holds the translations
MenuAfterUnreviewedWorkflow ==
    /\ pc = "menu"
    /\ workflows = 2
    /\ exports = 1
    /\ saves = 1
    /\ translation_memory # EmptyMap
    /\ Persisted = translation_memory

====
